---------------------------- MODULE Spec2Model ----------------------------
(***************************************************************************)
(* A model of policygraph-mcp: the multi-gate request pipeline             *)
(* (MultiMCPHost.ask_once and the LangGraph run_once) and the SSE session  *)
(* layer (MCPSSESession: rpc, wait_for_id, the reader's on_event).         *)
(*                                                                         *)
(* Text is a sequence of symbols.  A request text is a sequence of words;  *)
(* every other string is a sequence of characters in which an identifier  *)
(* (a server name, a tool name, a key, an id) is one symbol.               *)
(* A JSON / Python value is a tagged record [k |-> kind, v |-> payload].   *)
(***************************************************************************)
EXTENDS Integers, Sequences, FiniteSets, TLC

VARIABLES
    rq,             \* the request in progress: the locals of ask_once / the AgentState of run_once
    allowlist_file, \* the operator's allowlist source (config/allowlist.json)
    safe_summarize, \* the SAFE_SUMMARIZE environment flag
    clock,          \* the wall clock in milliseconds, as _now_ms() reads it
    messages_url,   \* per session: the message endpoint, None until the endpoint event
    inbox,          \* per session: _inbox, rpc id -> message
    errors,         \* per session: _errors
    reader,         \* per session: the SSEReader thread, "none", "running" or "ended"
    stream,         \* per session: the events the server wrote that the reader has not read yet
    posted,         \* per session: every envelope POSTed, in order
    conn,           \* per session: where connect() is
    callers         \* per caller thread: where it is in list_tools / call_tool

vars == <<rq, allowlist_file, safe_summarize, clock, messages_url, inbox, errors,
          reader, stream, posted, conn, callers>>

-----------------------------------------------------------------------------
(* Bounds of the model *)

\* the length at which _to_source_text cuts the serialized payload; the code's
\* default is 8000 characters, scaled down here to the size of the model's payloads
MaxChars == 28
\* the number of milliseconds the wall clock advances in a session run
MaxClock == 1
\* caller threads using the sessions at the same time
NumCallers == 2
\* the list_tools / call_tool requests the callers make in a session run
MaxRpcs == 2

-----------------------------------------------------------------------------
(* Python / JSON values *)

None == [k |-> "null", v |-> <<>>]
Bool(b) == [k |-> "bool", v |-> b]
PyInt(n) == [k |-> "int", v |-> n]
Str(s) == [k |-> "str", v |-> s]
Sym(x) == [k |-> "str", v |-> <<x>>]
Dict(f) == [k |-> "dict", v |-> f]
List(s) == [k |-> "list", v |-> s]
EmptyDict == Dict(<<>>)

\* d.get(key)
Get(d, key) == IF key \in DOMAIN d.v THEN d.v[key] ELSE None

\* whether a value can be looked up in a dict (dicts and lists are unhashable)
Hashable(x) == x.k \notin {"dict", "list"}

\* the symbol of a one-symbol string, "" for every other value
SymOf(x) == IF x.k = "str" /\ Len(x.v) = 1 THEN x.v[1] ELSE ""

IsSpace(c) == c \in {" ", "\n", "\t"}

RECURSIVE LStrip(_)
LStrip(s) == IF s # <<>> /\ IsSpace(Head(s)) THEN LStrip(Tail(s)) ELSE s

RECURSIVE RStrip(_)
RStrip(s) ==
    IF s # <<>> /\ IsSpace(s[Len(s)]) THEN RStrip(SubSeq(s, 1, Len(s) - 1)) ELSE s

\* str.strip()
Strip(s) == RStrip(LStrip(s))

\* sub in text
IsSubstring(sub, text) ==
    \E i \in 1..(Len(text) - Len(sub) + 1) : SubSeq(text, i, i + Len(sub) - 1) = sub

\* str.lower() of one word of a request text
Lower(w) ==
    CASE w = "HACK" -> "hack"
      [] w = "Fetch" -> "fetch"
      [] w = "SP-001" -> "sp-001"
      [] w = "INC001" -> "inc001"
      [] w = "Summarize" -> "summarize"
      [] w \in {"Hack", "hacK"} -> "hack"
      [] w = "Kill" -> "kill"
      [] w = "How" -> "how"
      [] w = "I" -> "i"
      [] w = "Find" -> "find"
      [] w = "PII" -> "pii"
      [] OTHER -> w

LowerText(q) == [i \in 1..Len(q) |-> Lower(q[i])]

-----------------------------------------------------------------------------
(* Gate 0: the input policy gate (safety.py) *)

\* each pattern is \b(alt|alt|...)\b: the set of its alternatives, each a phrase of words
_UNSAFE_PATTERNS ==
    << {<<"hack">>, <<"exploit">>, <<"malware">>, <<"ransomware">>, <<"phishing">>},
       {<<"build", "a", "bomb">>, <<"explosive">>, <<"detonator">>},
       {<<"suicide">>, <<"self-harm">>, <<"kill", "myself">>},
       {<<"credit", "card", "dump">>, <<"steal", "password">>, <<"credential">>} >>

\* re.search(pat, text)
PatternMatches(pat, text) == \E phrase \in pat : IsSubstring(phrase, text)

\* a variant that searches the text as it was typed
policy_check_user_query_cased(q) ==
    LET hits == {i \in 1..Len(_UNSAFE_PATTERNS) : PatternMatches(_UNSAFE_PATTERNS[i], q)}
    IN  IF hits # {}
        THEN [allowed |-> FALSE, reason |-> CHOOSE i \in hits : \A j \in hits : i <= j]
        ELSE [allowed |-> TRUE, reason |-> 0]

\* (allowed, reason): reason is the index of the pattern named in the message, 0 for ""
policy_check_user_query(q) ==
    LET text == LowerText(q)
        hits == {i \in 1..Len(_UNSAFE_PATTERNS) : PatternMatches(_UNSAFE_PATTERNS[i], text)}
    IN  IF hits # {}
        THEN [allowed |-> FALSE, reason |-> CHOOSE i \in hits : \A j \in hits : i <= j]
        ELSE [allowed |-> TRUE, reason |-> 0]

-----------------------------------------------------------------------------
(* Gate 1: strict JSON plan parsing (safety.py) *)

\* The member lists a JSON text of the model can hold between its braces: the
\* symbol stands for the serialized members of the dict it names.
JsonBodies ==
    [ fetch_sp |-> [type |-> Sym("call_tool"), server |-> Sym("mcp-sharepoint"),
                    tool |-> Sym("fetch_sharepoint_doc"),
                    args |-> Dict([doc_id |-> Sym("sp-001")])],
      resp0 |-> [id |-> PyInt(0), result |-> PyInt(1)],
      noid |-> [result |-> PyInt(1)],
      badid |-> [id |-> Sym("x"), result |-> PyInt(1)] ]

\* json.loads(s): [ok, value]; ok = FALSE is the exception it raises.  A text
\* is an object, an array of at most one value, a number or null, with
\* whitespace around it
RECURSIVE JsonLoads(_)
JsonLoads(s) ==
    LET t == Strip(s)
        inner == SubSeq(t, 2, Len(t) - 1)
        fail == [ok |-> FALSE, value |-> None]
    IN  IF t = <<>> THEN fail
        ELSE IF t = <<"null">> THEN [ok |-> TRUE, value |-> None]
        ELSE IF t = <<"123">> THEN [ok |-> TRUE, value |-> PyInt(123)]
        ELSE IF Len(t) < 2 THEN fail
        ELSE IF Head(t) = "{" /\ t[Len(t)] = "}"
        THEN IF Strip(inner) = <<>> THEN [ok |-> TRUE, value |-> EmptyDict]
             ELSE IF Len(Strip(inner)) = 1 /\ Strip(inner)[1] \in DOMAIN JsonBodies
             THEN [ok |-> TRUE, value |-> Dict(JsonBodies[Strip(inner)[1]])]
             ELSE fail
        ELSE IF Head(t) = "[" /\ t[Len(t)] = "]"
        THEN IF Strip(inner) = <<>> THEN [ok |-> TRUE, value |-> List(<<>>)]
             ELSE IF JsonLoads(inner).ok
             THEN [ok |-> TRUE, value |-> List(<<JsonLoads(inner).value>>)]
             ELSE fail
        ELSE fail

\* a variant of the strict JSON gate that takes any JSON text
parse_strict_json_plan_any_json(raw) ==
    IF raw.k = "dict" THEN [ok |-> TRUE, plan |-> raw]
    ELSE IF raw.k = "str"
         THEN [ok |-> JsonLoads(raw.v).ok, plan |-> JsonLoads(raw.v).value]
         ELSE [ok |-> FALSE, plan |-> None]

\* returns [ok, plan]; ok = FALSE is PlanParseError
parse_strict_json_plan(raw) ==
    IF raw.k = "dict" THEN [ok |-> TRUE, plan |-> raw]
    ELSE IF raw.k = "str"
         THEN LET s == Strip(raw.v)
              IN  IF ~(s # <<>> /\ Head(s) = "{" /\ s[Len(s)] = "}")
                  THEN [ok |-> FALSE, plan |-> None]
                  ELSE LET j == JsonLoads(s)
                       IN  [ok |-> j.ok, plan |-> j.value]
         ELSE [ok |-> FALSE, plan |-> None]

-----------------------------------------------------------------------------
(* Gate 2: plan validation against the live catalog (validator.py) *)

\* isinstance(value, cls): bool is a subclass of int
IsInstance(value, cls) == value.k = cls \/ (cls = "int" /\ value.k = "bool")

\* a variant of the type check without the exclusions of bool
_type_ok_isinstance(jsonschema_type, value) ==
    CASE jsonschema_type = "string" -> IsInstance(value, "str")
      [] jsonschema_type = "integer" -> IsInstance(value, "int")
      [] jsonschema_type = "number" -> IsInstance(value, "int") \/ IsInstance(value, "float")
      [] jsonschema_type = "boolean" -> IsInstance(value, "bool")
      [] jsonschema_type = "object" -> IsInstance(value, "dict")
      [] jsonschema_type = "array" -> IsInstance(value, "list")
      [] OTHER -> FALSE

_type_ok(jsonschema_type, value) ==
    CASE jsonschema_type = "string" -> IsInstance(value, "str")
      [] jsonschema_type = "integer" ->
            IsInstance(value, "int") /\ ~IsInstance(value, "bool")
      [] jsonschema_type = "number" ->
            (IsInstance(value, "int") \/ IsInstance(value, "float"))
            /\ ~IsInstance(value, "bool")
      [] jsonschema_type = "boolean" -> IsInstance(value, "bool")
      [] jsonschema_type = "object" -> IsInstance(value, "dict")
      [] jsonschema_type = "array" -> IsInstance(value, "list")
      [] OTHER -> FALSE

Rejected(status) == [status |-> status, server |-> "", tool |-> "", args |-> EmptyDict]

\* a variant of the final_answer branch that does not strip the answer
ValidateFinalAnswerUntrimmed(plan) ==
    IF Get(plan, "needs_more_info") # Bool(TRUE) THEN Rejected("ValidationError")
    ELSE IF Get(plan, "answer").k # "str" \/ Get(plan, "answer").v = <<>>
         THEN Rejected("ValidationError")
         ELSE Rejected("ok")

\* the final_answer branch: needs_more_info must be the value True, answer a
\* string that is non-empty after strip()
ValidateFinalAnswer(plan) ==
    IF Get(plan, "needs_more_info") # Bool(TRUE) THEN Rejected("ValidationError")
    ELSE IF Get(plan, "answer").k # "str" \/ Strip(Get(plan, "answer").v) = <<>>
         THEN Rejected("ValidationError")
         ELSE Rejected("ok")

\* the checks of args against the tool's inputSchema
ArgsMatchSchema(args, schema) ==
    /\ \A i \in 1..Len(schema.required) : schema.required[i] \in DOMAIN args.v
    /\ \A a \in DOMAIN args.v : a \in DOMAIN schema.properties
    /\ \A a \in DOMAIN args.v :
          schema.properties[a] # "" => _type_ok(schema.properties[a], args.v[a])

\* the call_tool branch; tool_catalog is server -> sequence of descriptors
ValidateCallTool(plan, tool_catalog) ==
    LET server == Get(plan, "server")
        tool == Get(plan, "tool")
        args == Get(plan, "args")
    IN  IF ~Hashable(server) THEN Rejected("TypeError")
        ELSE IF SymOf(server) \notin DOMAIN tool_catalog THEN Rejected("ValidationError")
        ELSE LET listed == tool_catalog[SymOf(server)]
                 named == {i \in 1..Len(listed) : listed[i].name = SymOf(tool)}
             IN  IF ~Hashable(tool) THEN Rejected("TypeError")
                 ELSE IF named = {} THEN Rejected("ValidationError")
                 ELSE IF args.k # "dict" THEN Rejected("ValidationError")
                 ELSE LET t == listed[CHOOSE i \in named : \A j \in named : j <= i]
                      IN  IF ArgsMatchSchema(args, t.inputSchema)
                          THEN [status |-> "ok", server |-> SymOf(server),
                                tool |-> SymOf(tool), args |-> args]
                          ELSE Rejected("ValidationError")

\* status "ok" returns (server, tool, args), or ("", "", {}) for a final_answer;
\* "ValidationError" is the validator's rejection; "TypeError" is the lookup of
\* an unhashable server or tool, which validate_plan does not catch
validate_plan(plan, tool_catalog) ==
    IF plan.k # "dict" THEN Rejected("ValidationError")
    ELSE IF Get(plan, "type") \notin {Sym("call_tool"), Sym("final_answer")}
         THEN Rejected("ValidationError")
         ELSE IF Get(plan, "type") = Sym("final_answer")
              THEN ValidateFinalAnswer(plan)
              ELSE ValidateCallTool(plan, tool_catalog)

-----------------------------------------------------------------------------
(* The registry and what its servers answer *)

\* the sessions of the host, in registration order: main() drops a server
\* whose URL is empty, here mcp-servicenow
Servers == <<"mcp-sharepoint", "mcp-policy-kb">>

ServerSet == {Servers[i] : i \in 1..Len(Servers)}

\* inputSchema of a tool: property -> declared type ("" when none), and required
OneString(arg) == [properties |-> [a \in {arg} |-> "string"], required |-> <<arg>>]

\* the descriptor a server lists for a tool (name, inputSchema)
ToolDescriptor(name) ==
    [name |-> name,
     inputSchema |->
        CASE name \in {"fetch_sharepoint_doc", "delete_sharepoint_doc"} -> OneString("doc_id")
          [] name = "fetch_policy_entry" -> OneString("policy_id")
          [] OTHER -> [properties |-> [query |-> "string", top_k |-> "integer"],
                       required |-> <<"query">>]]

Descriptors(names) == [i \in 1..Len(names) |-> ToolDescriptor(names[i])]

\* a JSON-RPC response carrying "result" (a value) or "error"
ResultMsg(result) == [kind |-> "result", result |-> result]

\* a tools/list answer: {"result": {"tools": [...]}}
ToolsListResult(names) == ResultMsg(List(Descriptors(names)))
ErrorMsg == [kind |-> "error", result |-> None]

\* what a server may answer to tools/list
ToolsListAnswers(server) ==
    IF server = "mcp-sharepoint"
    THEN {ToolsListResult(<<"search_sharepoint", "fetch_sharepoint_doc">>),
          ToolsListResult(<<"fetch_sharepoint_doc", "delete_sharepoint_doc">>),
          ErrorMsg}
    ELSE {ToolsListResult(<<"fetch_policy_entry">>),
          ToolsListResult(<<>>),
          ErrorMsg}

\* the inline value tools_all stores when a session's list_tools raises
InlineError == [kind |-> "inline_error", result |-> None]

\* ok_tools: the servers whose entry is a response with "result"
OkTools(tools_payload) ==
    [srv \in {s \in DOMAIN tools_payload : tools_payload[s].kind = "result"} |->
        tools_payload[srv]]

\* resp["result"].get("tools", []): a result object that is not a tools/list
\* answer has no "tools"
Tools(resp) == IF resp.result.k = "list" THEN resp.result.v ELSE <<>>

\* the names a successful discovery lists, per server
build_allowlist_from_tools_payload(servers_to_tools) ==
    [srv \in DOMAIN servers_to_tools |->
        {Tools(servers_to_tools[srv])[i].name :
            i \in 1..Len(Tools(servers_to_tools[srv]))}]

\* json.loads(build_tool_catalog(ok_tools)): server -> descriptors
build_tool_catalog(servers_to_tools) ==
    [srv \in DOMAIN servers_to_tools |-> Tools(servers_to_tools[srv])]

-----------------------------------------------------------------------------
(* The operator's allowlist (allowlist_config.py) and its enforcement *)

\* a JSON array of tool names
Names(names) == List([i \in 1..Len(names) |-> Sym(names[i])])

\* what config/allowlist.json may hold: nothing (the file is missing), or a
\* JSON object server -> array of tool names
AllowlistFiles ==
    {None,
     Dict([s \in {"mcp-sharepoint", "mcp-policy-kb"} |->
        IF s = "mcp-sharepoint" THEN Names(<<"fetch_sharepoint_doc", "search_sharepoint">>)
        ELSE Names(<<"fetch_policy_entry">>)]),
     Dict([s \in {"mcp-sharepoint"} |->
        Names(<<"fetch_sharepoint_doc", "delete_sharepoint_doc">>)])}

\* a file whose text json.load rejects
Unparseable == [k |-> "text", v |-> <<>>]

\* the entries of a JSON array that are non-blank strings, as a set of names
NameSet(tools) ==
    {SymOf(tools.v[i]) :
        i \in {j \in 1..Len(tools.v) : tools.v[j].k = "str" /\ Strip(tools.v[j].v) # <<>>}}

\* a variant of the loader that falls back without a warning
load_allowlist_json_silent(file) ==
    IF file = None \/ file.k # "dict"
    THEN [allowlist |-> None, mode |-> "discovered", warning |-> <<>>]
    ELSE [allowlist |->
            Dict([server \in {x \in DOMAIN file.v : file.v[x].k = "list"} |->
                    NameSet(file.v[server])]),
          mode |-> "configured", warning |-> <<>>]

\* AllowlistLoadResult: allowlist is None in discovered mode, else server ->
\* set of names; entries with a blank server name or a value that is no array
\* are skipped
load_allowlist_json(file) ==
    IF file = None
    THEN [allowlist |-> None, mode |-> "discovered",
          warning |-> <<"Allowlist file not found">>]
    ELSE IF file.k # "dict"
    THEN [allowlist |-> None, mode |-> "discovered",
          warning |-> <<"Allowlist file invalid">>]
    ELSE [allowlist |->
            Dict([server \in {x \in DOMAIN file.v :
                                 /\ x # "" /\ Strip(<<x>>) # <<>>
                                 /\ file.v[x].k = "list"} |->
                    NameSet(file.v[server])]),
          mode |-> "configured", warning |-> <<>>]

\* a variant of the effective allowlist in which a server the operator has not
\* listed keeps what it was discovered with
apply_configured_allowlist_open(discovered, configured) ==
    IF configured = None THEN discovered
    ELSE [server \in DOMAIN discovered |->
            IF server \in DOMAIN configured.v
            THEN discovered[server] \cap configured.v[server]
            ELSE discovered[server]]

\* discovered: server -> names; configured: None or Dict(server -> names)
apply_configured_allowlist(discovered, configured) ==
    IF configured = None THEN discovered
    ELSE [server \in DOMAIN discovered |->
            discovered[server] \cap
                (IF server \in DOMAIN configured.v THEN configured.v[server] ELSE {})]

\* a variant of the allowlist gate that takes a tool allowed on any server
enforce_tool_allowlist_any_server(server, tool, allowlist) ==
    \E s \in DOMAIN allowlist : tool \in allowlist[s]

\* a variant of the allowlist gate that looks the server up and not the tool
enforce_tool_allowlist_server_only(server, tool, allowlist) == server \in DOMAIN allowlist

\* TRUE when enforce_tool_allowlist returns, FALSE when it raises ToolNotAllowed
enforce_tool_allowlist(server, tool, allowlist) ==
    IF server \notin DOMAIN allowlist THEN FALSE
    ELSE tool \in allowlist[server]

-----------------------------------------------------------------------------
(* Typed tool output (typed_parser.py, tool_schemas.py, typed_models.py) *)

\* a dict whose key order matters, because it is serialized: a sequence of
\* [key, val] members
Obj(members) == [k |-> "obj", v |-> members]
Member(key, val) == [key |-> key, val |-> val]

ObjHas(o, key) == \E i \in 1..Len(o.v) : o.v[i].key = key
ObjGet(o, key) == o.v[CHOOSE i \in 1..Len(o.v) : o.v[i].key = key].val

\* the pydantic model registered for (server, tool), "None" when there is none
TOOL_OUTPUT_MODELS(server, tool) ==
    CASE server = "mcp-sharepoint" /\ tool = "search_sharepoint" -> "SharePointSearchResult"
      [] server = "mcp-sharepoint" /\ tool = "fetch_sharepoint_doc" -> "SharePointDoc"
      [] server = "mcp-servicenow" /\ tool = "search_servicenow_tickets" -> "ServiceNowSearchResult"
      [] server = "mcp-servicenow" /\ tool = "get_ticket" -> "ServiceNowTicket"
      [] server = "mcp-policy-kb" /\ tool = "search_policy_kb" -> "PolicyKBSearchResult"
      [] server = "mcp-policy-kb" /\ tool = "fetch_policy_entry" -> "PolicyDoc"
      [] OTHER -> "None"

StrField(name) == [name |-> name, type |-> "str", elem |-> "None"]
ListField(name, elem) == [name |-> name, type |-> "list", elem |-> elem]

\* the declared fields of a model, in declaration order
ModelFields(model) ==
    CASE model = "SharePointDoc" -> <<StrField("doc_id"), StrField("content")>>
      [] model = "ServiceNowTicket" -> <<StrField("ticket_id"), StrField("content")>>
      [] model = "PolicyDoc" -> <<StrField("policy_id"), StrField("content")>>
      [] model = "SharePointSearchResult" ->
            <<StrField("query"), ListField("results", "SharePointSearchHit")>>
      [] model = "ServiceNowSearchResult" ->
            <<StrField("query"), ListField("results", "ServiceNowTicketHit")>>
      [] model = "PolicyKBSearchResult" ->
            <<StrField("query"), ListField("results", "PolicyKBSearchHit")>>
      [] model = "SharePointSearchHit" ->
            <<StrField("doc_id"), StrField("title"), StrField("snippet")>>
      [] model = "ServiceNowTicketHit" ->
            <<StrField("ticket_id"), StrField("title"), StrField("snippet")>>
      [] OTHER -> <<StrField("policy_id"), StrField("title"), StrField("snippet")>>

\* model.model_validate(payload) followed by model_dump(): a str field is
\* required and must be a string; a list field defaults to [] and each of its
\* elements must validate; undeclared members are dropped
RECURSIVE model_validate(_, _)
model_validate(model, payload) ==
    LET fields == ModelFields(model)
        FieldOk(f) ==
            IF f.type = "str"
            THEN ObjHas(payload, f.name) /\ ObjGet(payload, f.name).k = "str"
            ELSE ObjHas(payload, f.name) =>
                    /\ ObjGet(payload, f.name).k = "list"
                    /\ \A j \in 1..Len(ObjGet(payload, f.name).v) :
                          model_validate(f.elem, ObjGet(payload, f.name).v[j]).ok
        Dump(f) ==
            IF f.type = "str" THEN ObjGet(payload, f.name)
            ELSE IF ~ObjHas(payload, f.name) THEN List(<<>>)
                 ELSE List([j \in 1..Len(ObjGet(payload, f.name).v) |->
                              model_validate(f.elem, ObjGet(payload, f.name).v[j]).typed])
    IN  IF payload.k = "obj" /\ \A i \in 1..Len(fields) : FieldOk(fields[i])
        THEN [ok |-> TRUE,
              typed |-> Obj([i \in 1..Len(fields) |-> Member(fields[i].name, Dump(fields[i]))])]
        ELSE [ok |-> FALSE, typed |-> None]

\* a tools/call answer's result object
CallResult(structuredContent, isError) ==
    ResultMsg(Dict([structuredContent |-> structuredContent, isError |-> Bool(isError)]))

\* [ok, sc]; ok = FALSE is ToolOutputParseError
extract_structured_content(tool_call_response) ==
    IF tool_call_response.kind = "error" THEN [ok |-> FALSE, sc |-> None]
    ELSE IF tool_call_response.result.k # "dict" THEN [ok |-> FALSE, sc |-> None]
    ELSE IF Get(tool_call_response.result, "isError") = Bool(TRUE)
         THEN [ok |-> FALSE, sc |-> None]
    ELSE IF Get(tool_call_response.result, "structuredContent").k # "obj"
         THEN [ok |-> FALSE, sc |-> None]
         ELSE [ok |-> TRUE, sc |-> Get(tool_call_response.result, "structuredContent")]

\* a variant that takes the structured content as it is, without validating it
parse_typed_tool_output_unvalidated(server, tool, tool_call_response) ==
    LET payload == extract_structured_content(tool_call_response)
    IN  IF TOOL_OUTPUT_MODELS(server, tool) = "None" \/ ~payload.ok
        THEN [ok |-> FALSE, typed |-> None]
        ELSE [ok |-> TRUE, typed |-> payload.sc]

\* [ok, typed]: typed is the model_dump() of the validated payload
parse_typed_tool_output(server, tool, tool_call_response) ==
    LET model == TOOL_OUTPUT_MODELS(server, tool)
        payload == extract_structured_content(tool_call_response)
    IN  IF model = "None" THEN [ok |-> FALSE, typed |-> None]
        ELSE IF ~payload.ok THEN [ok |-> FALSE, typed |-> None]
        ELSE model_validate(model, payload.sc)

-----------------------------------------------------------------------------
(* Grounded summarization (summarizer.py) *)

\* the escapes json.dumps writes inside a string
RECURSIVE JsonEscape(_)
JsonEscape(s) ==
    IF s = <<>> THEN <<>>
    ELSE (CASE Head(s) = "\"" -> <<"\\", "\"">>
            [] Head(s) = "\\" -> <<"\\", "\\">>
            [] Head(s) = "\n" -> <<"\\", "n">>
            [] OTHER -> <<Head(s)>>) \o JsonEscape(Tail(s))

Indent(level) == [i \in 1..(2 * level) |-> " "]

\* json.dumps(value, ensure_ascii=False, indent=2), the value at nesting depth level
RECURSIVE JsonDumps(_, _)
JsonDumps(value, level) ==
    LET RECURSIVE Items(_)
        Items(i) ==
            IF i > Len(value.v) THEN <<>>
            ELSE (IF i > 1 THEN <<",">> ELSE <<>>) \o <<"\n">> \o Indent(level + 1)
                 \o (IF value.k = "obj"
                     THEN <<"\"", value.v[i].key, "\"", ":", " ">>
                          \o JsonDumps(value.v[i].val, level + 1)
                     ELSE JsonDumps(value.v[i], level + 1))
                 \o Items(i + 1)
    IN  CASE value.k = "str" -> <<"\"">> \o JsonEscape(value.v) \o <<"\"">>
          [] value.k = "obj" ->
                IF value.v = <<>> THEN <<"{", "}">>
                ELSE <<"{">> \o Items(1) \o <<"\n">> \o Indent(level) \o <<"}">>
          [] value.k = "list" ->
                IF value.v = <<>> THEN <<"[", "]">>
                ELSE <<"[">> \o Items(1) \o <<"\n">> \o Indent(level) \o <<"]">>
          [] OTHER -> <<"null">>

TruncationMarker == <<"\n", ".", ".", ".", "[TRUNCATED]", ".", ".", ".">>

\* the canonical text of a tool result: its serialization, cut at max_chars
\* and followed by the marker when it is longer
_to_source_text(tool_result, max_chars) ==
    LET src == JsonDumps(tool_result, 0)
    IN  IF Len(src) > max_chars THEN SubSeq(src, 1, max_chars) \o TruncationMarker
        ELSE src

\* a variant of the item check that asks for evidence and does not look it up
ItemGroundedNonEmpty(item, source_text) ==
    /\ item.k = "dict"
    /\ Get(item, "claim").k = "str" /\ Strip(Get(item, "claim").v) # <<>>
    /\ Get(item, "evidence").k = "str" /\ Strip(Get(item, "evidence").v) # <<>>

\* the first check an item fails, as validate_grounded_summary makes them
ItemGrounded(item, source_text) ==
    /\ item.k = "dict"
    /\ Get(item, "claim").k = "str" /\ Strip(Get(item, "claim").v) # <<>>
    /\ Get(item, "evidence").k = "str" /\ Strip(Get(item, "evidence").v) # <<>>
    /\ IsSubstring(Get(item, "evidence").v, source_text)

\* a variant that scans the sections from the last to the first
SummarySectionsReversed == <<"recommendations", "risks", "bullets">>

SummarySections == <<"bullets", "risks", "recommendations">>

\* a GroundingError: the section and the index its message names ("" and -1
\* when it names none) and the check that failed; what = "" is no error
Grounding(section, index, what) == [section |-> section, index |-> index, what |-> what]

\* the check an item fails: the message of the GroundingError raised for it
ItemError(item, source_text) ==
    IF item.k # "dict" THEN "must be an object"
    ELSE IF ~(Get(item, "claim").k = "str" /\ Strip(Get(item, "claim").v) # <<>>)
    THEN "claim must be a non-empty string"
    ELSE IF ~(Get(item, "evidence").k = "str" /\ Strip(Get(item, "evidence").v) # <<>>)
    THEN "evidence must be a non-empty string"
    ELSE "evidence not found verbatim in SOURCE"

\* the GroundingError validate_grounded_summary raises, if any: the loops stop
\* at the first section that is no list or holds an item that fails a check
GroundingErrorOf(summary, source_text) ==
    LET items(n) == Get(summary, SummarySections[n])
        failing(n) == {i \in 1..Len(items(n).v) : ~ItemGrounded(items(n).v[i], source_text)}
        stops == {n \in 1..Len(SummarySections) : items(n).k # "list" \/ failing(n) # {}}
        n0 == CHOOSE n \in stops : \A m \in stops : n <= m
        i0 == CHOOSE i \in failing(n0) : \A j \in failing(n0) : i <= j
    IN  IF summary.k # "dict" THEN Grounding("", -1, "Summary must be a JSON object")
        ELSE IF Get(summary, "type") # Sym("summary")
        THEN Grounding("", -1, "Summary.type must be summary")
        ELSE IF stops = {} THEN Grounding("", -1, "")
        ELSE IF items(n0).k # "list" THEN Grounding(SummarySections[n0], -1, "must be a list")
        ELSE Grounding(SummarySections[n0], i0 - 1, ItemError(items(n0).v[i0], source_text))

\* TRUE when validate_grounded_summary returns, FALSE when it raises GroundingError
validate_grounded_summary(summary, source_text) ==
    GroundingErrorOf(summary, source_text).what = ""

-----------------------------------------------------------------------------
(* The deterministic identifier shortcut (langgraph_agent.py) *)

\* the words \b(sp-\d+)\b, \b(policy-\d+)\b and \b((?:INC|RITM|TASK|CHG)\d+)\b
\* match, case-insensitively
MatchesDocId(w) == Lower(w) \in {"sp-001", "sp-002"}
MatchesPolicyId(w) == Lower(w) \in {"policy-001"}
MatchesTicketId(w) == Lower(w) \in {"inc001", "chg001"}

\* re.search: the first word of q the pattern matches, 0 when none does
Search(Matches(_), q) ==
    IF \E i \in 1..Len(q) : Matches(q[i])
    THEN CHOOSE i \in 1..Len(q) : Matches(q[i]) /\ \A j \in 1..(i - 1) : ~Matches(q[j])
    ELSE 0

CallToolPlan(server, tool, field, id) ==
    Dict([type |-> Sym("call_tool"), server |-> Sym(server), tool |-> Sym(tool),
          args |-> Dict([a \in {field} |-> Sym(id)])])

\* a variant of the forced plan that names every identifier argument "id"
_deterministic_plan_id_arg(user_query) ==
    LET sp == Search(MatchesDocId, user_query)
        pol == Search(MatchesPolicyId, user_query)
        sn == Search(MatchesTicketId, user_query)
    IN  IF sp # 0
        THEN CallToolPlan("mcp-sharepoint", "fetch_sharepoint_doc", "id", user_query[sp])
        ELSE IF pol # 0
        THEN CallToolPlan("mcp-policy-kb", "fetch_policy_entry", "id", user_query[pol])
        ELSE IF sn # 0
        THEN CallToolPlan("mcp-servicenow", "get_ticket", "id", user_query[sn])
        ELSE None

\* the forced plan, None when the text holds no identifier
_deterministic_plan_from_ids(user_query) ==
    LET sp == Search(MatchesDocId, user_query)
        pol == Search(MatchesPolicyId, user_query)
        sn == Search(MatchesTicketId, user_query)
    IN  IF sp # 0
        THEN CallToolPlan("mcp-sharepoint", "fetch_sharepoint_doc", "doc_id", user_query[sp])
        ELSE IF pol # 0
        THEN CallToolPlan("mcp-policy-kb", "fetch_policy_entry", "policy_id", user_query[pol])
        ELSE IF sn # 0
        THEN CallToolPlan("mcp-servicenow", "get_ticket", "ticket_id", user_query[sn])
        ELSE None

\* "summarize" in q.lower()
_wants_summary(q) == \E i \in 1..Len(q) : Lower(q[i]) \in {"summarize", "summarized"}

\* tool.startswith("search_")
IsSearchTool(tool) ==
    tool \in {"search_sharepoint", "search_policy_kb", "search_servicenow_tickets"}

-----------------------------------------------------------------------------
(* The inputs of a request: its text, and what the collaborators answer *)

Queries ==
    {<<"Fetch", "sp-001">>, <<"summarize", "sp-001">>, <<"HACK", "sp-001">>,
     <<"find", "pii">>, <<"Summarize", "pii">>, <<"policy-001", "SP-001">>,
     <<"Fetch", "INC001">>, <<"kill", "myself">>}

FinalAnswerPlan(needs_more_info, answer) ==
    Dict([type |-> Sym("final_answer"), needs_more_info |-> needs_more_info,
          answer |-> answer])

\* what the planner model may return through chat_json, or through a stand-in
\* that hands back text
PlannerReplies ==
    {Dict(JsonBodies.fetch_sp),
     Str(<<"{", "fetch_sp", "}">>),
     Str(<<"Sure", ":", " ", "{", "fetch_sp", "}">>),
     Str(<<"{", "fetch_sp">>),
     CallToolPlan("mcp-sharepoint", "delete_sharepoint_doc", "doc_id", "sp-001"),
     CallToolPlan("mcp-sharepoint", "search_sharepoint", "query", "pii"),
     CallToolPlan("mcp-policy-kb", "fetch_policy_entry", "policy_id", "policy-001"),
     CallToolPlan("mcp-servicenow", "get_ticket", "ticket_id", "INC001"),
     CallToolPlan("mcp-sharepoint", "fetch_sharepoint_doc", "path", "sp-001"),
     Dict([type |-> Sym("call_tool"), server |-> Sym("mcp-sharepoint"),
           tool |-> Sym("fetch_sharepoint_doc"), args |-> EmptyDict]),
     Dict([type |-> Sym("call_tool"), server |-> Sym("mcp-sharepoint"),
           tool |-> Sym("fetch_sharepoint_doc"), args |-> Dict([doc_id |-> PyInt(123)])]),
     Dict([type |-> Sym("call_tool"), server |-> Sym("mcp-sharepoint"),
           tool |-> Sym("fetch_sharepoint_doc"),
           args |-> Dict([doc_id |-> Sym("sp-001"), extra |-> Sym("x")])]),
     Dict([type |-> Sym("call_tool"), server |-> EmptyDict,
           tool |-> Sym("fetch_sharepoint_doc"), args |-> EmptyDict]),
     Dict([type |-> Sym("tool_call"), server |-> Sym("mcp-sharepoint"),
           tool |-> Sym("fetch_sharepoint_doc"),
           args |-> Dict([doc_id |-> Sym("sp-001")])]),
     FinalAnswerPlan(Bool(TRUE), Str(<<"o", "k">>)),
     FinalAnswerPlan(Bool(TRUE), Str(<<" ", "o", "k", "\n">>)),
     FinalAnswerPlan(Bool(TRUE), Str(<<" ", "\n">>)),
     FinalAnswerPlan(Bool(TRUE), Str(<<>>)),
     FinalAnswerPlan(Bool(TRUE), PyInt(7)),
     FinalAnswerPlan(Bool(FALSE), Str(<<"o", "k">>)),
     FinalAnswerPlan(PyInt(1), Str(<<"o", "k">>)),
     FinalAnswerPlan(Sym("true"), Str(<<"o", "k">>)),
     Dict([type |-> Sym("final_answer"), answer |-> Str(<<"o", "k">>)])}

\* the outcome of a call to a collaborator: it raised exc, or it returned value
Returned(value) == [exc |-> "", value |-> value]
Raised(exc) == [exc |-> exc, value |-> None]

PlannerOutcomes == {Returned(p) : p \in PlannerReplies} \cup {Raised("RuntimeError")}

\* the content strings a fetch tool may return
Contents == {<<"a", "b">>, <<"NOT_FOUND">>, <<"a", "\"", "b", "c", "d", "e">>}

IdField(tool) ==
    CASE tool = "fetch_policy_entry" -> "policy_id"
      [] tool = "get_ticket" -> "ticket_id"
      [] OTHER -> "doc_id"

\* what a server may answer to tools/call
ToolCallAnswers(tool, args) ==
    IF IsSearchTool(tool)
    THEN {CallResult(Obj(<<Member("query", Get(args, "query")),
                           Member("results", List(<<Obj(<<Member("doc_id", Sym("sp-001")),
                                                          Member("title", Sym("PII")),
                                                          Member("snippet", Str(<<"a", "b">>))>>)>>))>>),
                     FALSE),
          ErrorMsg}
    ELSE IF tool = "delete_sharepoint_doc"
    THEN {CallResult(Obj(<<Member("doc_id", Get(args, "doc_id")),
                           Member("status", Sym("DELETED"))>>), FALSE)}
    ELSE {CallResult(Obj(<<Member(IdField(tool), Get(args, IdField(tool))),
                           Member("content", Str(c))>>), FALSE) : c \in Contents}
         \cup {CallResult(Obj(<<Member(IdField(tool), Get(args, IdField(tool))),
                                Member("content", PyInt(0))>>), FALSE),
               CallResult(Obj(<<Member("content", Str(<<"a", "b">>))>>), TRUE),
               CallResult(None, FALSE),
               ErrorMsg}

\* one {claim, evidence} item in one section of a summary
SummaryWith(section, evidence) ==
    Dict([x \in {"type", "bullets", "risks", "recommendations"} |->
            IF x = "type" THEN Sym("summary")
            ELSE IF x = section
                 THEN List(<<Dict([claim |-> Str(<<"c">>), evidence |-> evidence])>>)
                 ELSE List(<<>>)])

\* what the summarizer model may return
SummarizerReplies ==
    {SummaryWith("bullets", Str(<<"a">>)),
     SummaryWith("bullets", Str(<<"z">>)),
     SummaryWith("bullets", Str(<<"a", "\"", "b">>)),
     SummaryWith("bullets", Str(<<" ">>)),
     SummaryWith("bullets", PyInt(1)),
     SummaryWith("risks", Str(<<"b">>)),
     SummaryWith("risks", Str(<<"q">>)),
     SummaryWith("recommendations", Str(<<".", "[TRUNCATED]">>)),
     SummaryWith("none", Str(<<>>)),
     Dict([type |-> Sym("summary"), bullets |-> List(<<>>)]),
     Dict([type |-> Sym("answer")]),
     Str(<<"n", "o">>)}

SummarizerOutcomes == {Returned(x) : x \in SummarizerReplies} \cup {Raised("RuntimeError")}

-----------------------------------------------------------------------------
(* The request pipeline: MultiMCPHost.ask_once and the graph of run_once.     *)
(* A request is a record: the locals of ask_once, or the AgentState of the    *)
(* graph.  rpcs, planner_calls and summarizer_calls record what the request   *)
(* sent to the sessions and to the models.  Each step below is a function     *)
(* from the request (and what a collaborator answered) to the request after.  *)

NoMsg == [kind |-> "none", result |-> None]

\* a response dict: the keys a response may carry, empty / None when it has none
Output(type) ==
    [type |-> type, reason |-> <<>>, note |-> <<>>, answer |-> <<>>, plan |-> None,
     typed |-> None, summary |-> None, raw |-> NoMsg, trace_id |-> ""]

NewRequest(mode, user_query) ==
    [mode |-> mode, pc |-> "policy_gate", user_query |-> user_query,
     tools_payload |-> <<>>, ok_tools |-> <<>>, allowlist |-> <<>>,
     catalog_dict |-> <<>>, raw_plan |-> None, plan |-> None, forced |-> FALSE,
     server |-> "", tool |-> "", args |-> EmptyDict, raw_tool_result |-> NoMsg,
     typed |-> None, source_text |-> <<>>, summary |-> None, blocked |-> FALSE,
     output |-> Output("none"), exc |-> "",
     rpcs |-> <<>>, planner_calls |-> 0, summarizer_calls |-> 0, trace |-> <<>>,
     trace_dir |-> None, trace_id |-> "", audit |-> <<>>,
     allowlist_event |-> [mode |-> "", warning |-> <<>>]]

NoRequest == [NewRequest("none", <<>>) EXCEPT !.pc = "idle"]

\* trace.event(name, ...) / _trace(state, name, ...)
Event(r, name) == [r EXCEPT !.trace = Append(@, name)]

\* get_trace_dir(): SAFE_TRACE_DIR, None when unset or blank
TraceDirs == {None, Sym("traces")}

\* uuid.uuid4().hex
TraceIds == {"1f0e", "7c3a"}

\* the entry of ask_once / run_once with the audit sink as configured; trace_id
\* is what uuid4 gives this request
Traced(r, trace_dir, trace_id) == [r EXCEPT !.trace_dir = trace_dir, !.trace_id = trace_id]

\* TraceRecorder.to_dict / the document run_once dumps
AuditRecord(trace_id, events, final_output) ==
    [trace_id |-> trace_id, events |-> events, final_output |-> final_output]

\* return finish(out) in ask_once; the graph reaching END in run_once and the
\* end of run_once.  With a trace directory the record is written (audit is
\* what the request has written there) and the response names it
Finish(r, out) ==
    IF r.trace_dir = None THEN [r EXCEPT !.pc = "done", !.output = out]
    ELSE [r EXCEPT !.pc = "done",
                   !.audit = Append(@, AuditRecord(r.trace_id, r.trace, out)),
                   !.output = [out EXCEPT !.trace_id = r.trace_id]]

\* an exception no handler of the pipeline catches leaves ask_once / run_once
Raise(r, exc) == [r EXCEPT !.pc = "raised", !.exc = exc]

\* a gate rejection: {"type": "blocked", "reason": ...}
Block(r, reason) ==
    Finish([r EXCEPT !.blocked = TRUE], [Output("blocked") EXCEPT !.reason = reason, !.plan = r.plan])

\* a variant of gate 0 that records the verdict and goes on
PolicyGateAdvisory(r) ==
    [Event(Event(r, "request"), "policy_gate") EXCEPT
        !.blocked = ~policy_check_user_query(r.user_query).allowed, !.pc = "discover_tools"]

\* Gate 0.  ask_once 447-453; node_policy_gate and route_after_policy
PolicyGate(r) ==
    LET p == policy_check_user_query(r.user_query)
        r1 == Event(Event(r, "request"), "policy_gate")
    IN  IF ~p.allowed THEN Block(r1, <<"policy", p.reason>>)
        ELSE [r1 EXCEPT !.pc = "discover_tools"]

\* the envelope rpc() posts
Envelope(server, method, name, arguments) ==
    [server |-> server, method |-> method, name |-> name, arguments |-> arguments]

\* the ways sess.list_tools() / sess.call_tool() can end once the envelope is
\* posted: wait_for_id returns the answer, or raises on a reader error or at
\* its deadline
RpcOutcomes(answers) ==
    {Returned(a) : a \in answers} \cup {Raised("MCPProtocolError"), Raised("TimeoutError")}

\* the entries of tools_all(), by server name
PayloadMap(tools_payload) ==
    [srv \in ServerSet |-> tools_payload[CHOOSE i \in 1..Len(Servers) : Servers[i] = srv]]

\* a variant that records the allowlist before the discovery
AfterDiscoveryAllowlistFirst(r) ==
    LET ok_tools == OkTools(PayloadMap(r.tools_payload))
        discovered == build_allowlist_from_tools_payload(ok_tools)
        cfg == load_allowlist_json(allowlist_file)
    IN  [Event(Event(r, "allowlist"), "tools_discovered") EXCEPT
            !.ok_tools = ok_tools,
            !.allowlist = apply_configured_allowlist(discovered, cfg.allowlist),
            !.catalog_dict = build_tool_catalog(ok_tools),
            !.allowlist_event = [mode |-> cfg.mode, warning |-> cfg.warning],
            !.pc = "plan"]

\* what follows tools_all(): ok_tools, the discovered and the effective
\* allowlist, the catalog.  ask_once 459-486 and 509; node_discover_tools 156-193
AfterDiscovery(r) ==
    LET ok_tools == OkTools(PayloadMap(r.tools_payload))
        discovered == build_allowlist_from_tools_payload(ok_tools)
        cfg == load_allowlist_json(allowlist_file)
    IN  [Event(Event(r, "tools_discovered"), "allowlist") EXCEPT
            !.ok_tools = ok_tools,
            !.allowlist = apply_configured_allowlist(discovered, cfg.allowlist),
            !.catalog_dict = build_tool_catalog(ok_tools),
            !.allowlist_event = [mode |-> cfg.mode, warning |-> cfg.warning],
            !.pc = "plan"]

\* a variant of tools_all() in which a session's exception leaves the loop
DiscoverToolsPropagating(r, outcome) ==
    LET srv == Servers[Len(r.tools_payload) + 1]
        r1 == [r EXCEPT
                 !.rpcs = Append(@, Envelope(srv, "tools/list", "", EmptyDict)),
                 !.tools_payload = Append(@, outcome.value)]
    IN  IF outcome.exc # "" THEN Raise(r1, outcome.exc)
        ELSE IF Len(r1.tools_payload) < Len(Servers) THEN r1 ELSE AfterDiscovery(r1)

\* tools_all(): list_tools on the next session; a session that raises
\* contributes an inline error.  After the last session the step goes on to
\* the allowlist and the catalog.
DiscoverTools(r, outcome) ==
    LET srv == Servers[Len(r.tools_payload) + 1]
        r1 == [r EXCEPT
                 !.rpcs = Append(@, Envelope(srv, "tools/list", "", EmptyDict)),
                 !.tools_payload =
                     Append(@, IF outcome.exc # "" THEN InlineError ELSE outcome.value)]
    IN  IF Len(r1.tools_payload) < Len(Servers) THEN r1 ELSE AfterDiscovery(r1)

\* a variant without the identifier shortcut
UsesShortcutNever(r) == FALSE

\* whether the plan comes from the identifier shortcut: only the graph has one
UsesShortcut(r) ==
    r.mode = "run_once" /\ _deterministic_plan_from_ids(r.user_query) # None

\* a variant of the plan step that hands a reply the strict JSON gate rejects
\* on to validation
PlannerPlanLenient(r, outcome) ==
    IF outcome.exc # "" THEN Raise([r EXCEPT !.planner_calls = @ + 1], outcome.exc)
    ELSE [Event(Event(r, "planner_raw"), "planner_plan") EXCEPT
             !.planner_calls = @ + 1, !.raw_plan = outcome.value,
             !.plan = parse_strict_json_plan(outcome.value).plan,
             !.pc = "validate_and_select"]

\* the planner call and the strict JSON gate.  ask_once 488-506; node_plan 213-232
PlannerPlan(r, outcome) ==
    LET r1 == [r EXCEPT !.planner_calls = @ + 1]
        parsed == parse_strict_json_plan(outcome.value)
    IN  IF outcome.exc # "" THEN Raise(r1, outcome.exc)
        ELSE IF ~parsed.ok
        THEN Block(Event(Event([r1 EXCEPT !.raw_plan = outcome.value], "planner_raw"),
                         "planner_rejected"),
                   <<"Planner output rejected">>)
        ELSE [Event(Event(r1, "planner_raw"), "planner_plan") EXCEPT
                !.raw_plan = outcome.value, !.plan = parsed.plan, !.pc = "validate_and_select"]

\* node_plan 201-211: the forced plan
ForcedPlan(r) ==
    [Event(r, "plan_forced") EXCEPT
        !.plan = _deterministic_plan_from_ids(r.user_query),
        !.raw_plan = _deterministic_plan_from_ids(r.user_query),
        !.forced = TRUE,
        !.pc = "validate_and_select"]

Plan(r, outcome) == IF UsesShortcut(r) THEN ForcedPlan(r) ELSE PlannerPlan(r, outcome)

\* the plan's tool passed validation and the allowlist: it will be called
Selected(r, v) ==
    [r EXCEPT !.server = v.server, !.tool = v.tool, !.args = v.args, !.pc = "call_tool"]

\* a variant in which the graph selects the tool without the allowlist gate
EnforceAllowlistGraphOpen(r, v) ==
    IF r.mode = "ask_once"
    THEN IF enforce_tool_allowlist(v.server, v.tool, r.allowlist)
         THEN Selected(Event(r, "plan_validated"), v)
         ELSE Block(Event(Event(r, "plan_validated"), "tool_not_allowed"), <<"Tool not allowed">>)
    ELSE Selected(Event(Event(r, "plan_validated"), "plan_validated"), v)

\* the allowlist gate.  ask_once 532-539; node_validate_and_select 266-281
EnforceAllowlist(r, v) ==
    IF r.mode = "ask_once"
    THEN IF enforce_tool_allowlist(v.server, v.tool, r.allowlist)
         THEN Selected(Event(r, "plan_validated"), v)
         ELSE Block(Event(Event(r, "plan_validated"), "tool_not_allowed"), <<"Tool not allowed">>)
    ELSE IF enforce_tool_allowlist(v.server, v.tool, r.allowlist)
         THEN Selected(Event(Event(r, "plan_validated"), "plan_validated"), v)
         ELSE Block(Event(r, "tool_not_allowed"), <<"Tool not allowed">>)

\* str(plan.get("answer", "")).strip() of a validated final_answer
FinalAnswer(r) ==
    Finish(Event(r, "final_answer"),
           [Output("final_answer") EXCEPT !.answer = Strip(Get(r.plan, "answer").v),
                                          !.plan = r.plan])

\* schema validation, the final_answer exit, the allowlist gate.
\* ask_once 508-539; node_validate_and_select and route_after_validate
ValidateAndSelect(r) ==
    LET v == validate_plan(r.plan, r.catalog_dict)
    IN  IF v.status = "TypeError" THEN Raise(r, "TypeError")
        ELSE IF v.status = "ValidationError"
        THEN Block(Event(r, "plan_validation_failed"), <<"Plan validation failed">>)
        ELSE IF Get(r.plan, "type") = Sym("final_answer") THEN FinalAnswer(r)
        ELSE EnforceAllowlist(r, v)

\* a variant in which a failed call is tried again
CallRetried(r, exc) == [r EXCEPT !.exc = exc]

\* what becomes of the request when call_tool's wait_for_id raises: the
\* exception leaves the pipeline, the envelope is not sent again
CallFailed(r, exc) == Raise(r, exc)

\* typed parsing of the tool's answer.  ask_once 546-562; node_call_tool 298-319
TypedParse(r) ==
    LET t == parse_typed_tool_output(r.server, r.tool, r.raw_tool_result)
        raw_only == [Output("tool_result") EXCEPT
                        !.plan = r.plan, !.raw = r.raw_tool_result,
                        !.note = <<"Typed parsing blocked">>]
        with_typed == [Output("tool_result") EXCEPT
                          !.plan = r.plan, !.raw = r.raw_tool_result, !.typed = t.typed]
    IN  IF ~t.ok
        THEN IF r.mode = "ask_once" THEN Finish(Event(r, "typed_parse_failed"), raw_only)
             ELSE [Event(r, "typed_parse_failed") EXCEPT
                      !.output = raw_only, !.pc = "grounded_summarize"]
        ELSE [Event(r, "typed_payload") EXCEPT
                 !.typed = t.typed, !.output = with_typed, !.pc = "grounded_summarize"]

\* Gate 3: host.call(server, tool, args) and what follows it.
\* ask_once 541-562; node_call_tool
CallTool(r, outcome) ==
    LET r1 == [Event(r, "tool_call") EXCEPT
                 !.rpcs = Append(@, Envelope(r.server, "tools/call", r.tool, r.args))]
    IN  IF r.server \notin ServerSet THEN Raise(Event(r, "tool_call"), "KeyError")
        ELSE IF outcome.exc # "" THEN CallFailed(r1, outcome.exc)
        ELSE TypedParse([Event(r1, "tool_result_raw") EXCEPT
                            !.raw_tool_result = outcome.value])

\* the model's reply through the strict JSON gate and the grounding gate:
\* "ok", "PlanParseError" or "GroundingError"
SummaryVerdict(raw, source_text) ==
    LET parsed == parse_strict_json_plan(raw)
    IN  IF ~parsed.ok THEN "PlanParseError"
        ELSE IF ~validate_grounded_summary(parsed.plan, source_text) THEN "GroundingError"
        ELSE "ok"

\* ask_once 564-602 with summarize_tool_result 413-432
SummarizeAskOnce(r, outcome) ==
    LET r1 == Event(r, "summarize_decision")
        source_text == _to_source_text(r.typed, MaxChars)
        r2 == [r1 EXCEPT !.summarizer_calls = @ + 1, !.source_text = source_text]
        verdict == SummaryVerdict(outcome.value, source_text)
    IN  IF ~(_wants_summary(r.user_query) \/ safe_summarize) THEN Finish(r1, r.output)
        ELSE IF outcome.exc # "" THEN Raise(r2, outcome.exc)
        ELSE IF verdict = "PlanParseError" THEN Raise(r2, "PlanParseError")
        ELSE IF verdict = "GroundingError"
        THEN Finish(Event(r2, "summary_blocked"),
                    [r.output EXCEPT !.note = <<"Summary blocked (grounding failed)">>])
        ELSE Finish(Event([r2 EXCEPT !.summary = outcome.value], "summary"),
                    [r.output EXCEPT !.type = "tool_result_with_summary",
                                     !.summary = outcome.value])

\* node_grounded_summarize
SummarizeRunOnce(r, outcome) ==
    LET r1 == Event(r, "summarize_decision")
        source_text == JsonDumps(r.typed, 0)
        r2 == [r1 EXCEPT !.summarizer_calls = @ + 1, !.source_text = source_text]
        verdict == SummaryVerdict(outcome.value, source_text)
    IN  IF ~(safe_summarize \/ _wants_summary(r.user_query)) THEN Finish(r1, r.output)
        ELSE IF r.typed = None THEN Finish(r1, r.output)
        ELSE IF ObjHas(r.typed, "content") /\ ObjGet(r.typed, "content") = Sym("NOT_FOUND")
        THEN Finish(Event(r1, "summary_skipped"),
                    [r.output EXCEPT !.note = <<"Summary skipped: content is NOT_FOUND.">>])
        ELSE IF IsSearchTool(r.tool) /\ ~_wants_summary(r.user_query)
        THEN Finish(Event(r1, "summary_skipped"),
                    [r.output EXCEPT !.note = <<"Summary skipped: search results">>])
        ELSE IF outcome.exc # "" THEN Raise(r2, outcome.exc)
        ELSE IF verdict # "ok"
        THEN Finish(Event(r2, "summary_blocked"),
                    [r.output EXCEPT !.note = <<"Summary blocked (grounding failed)">>])
        ELSE Finish(Event([r2 EXCEPT !.summary = outcome.value], "summary"),
                    [r.output EXCEPT !.type = "tool_result_with_summary",
                                     !.summary = outcome.value])

GroundedSummarize(r, outcome) ==
    IF r.mode = "ask_once" THEN SummarizeAskOnce(r, outcome) ELSE SummarizeRunOnce(r, outcome)

-----------------------------------------------------------------------------
(* The session layer (MCPSSESession, SSEReader) *)

\* _join_url(_origin(self.sse_url), rel): the origin of the session's stream
\* URL and the relative path of the endpoint event
MessagesUrl(s, rel) == Str(<<s, rel>>)

\* an event the reader hands to on_event: data is text that json.loads
\* accepts (json = TRUE, with its value) or rejects
EndpointEvent(rel) == [event |-> "endpoint", json |-> FALSE, data |-> Sym(rel)]
MessageEvent(value) == [event |-> "message", json |-> TRUE, data |-> value]

\* the server's response to the i-th envelope posted on the session: it
\* echoes the request's id, and its result is the answer to that envelope
ResponseTo(envelope, i) == Dict([id |-> envelope.id, result |-> PyInt(i)])

\* the server's JSON-RPC error response to the i-th envelope
ErrorResponseTo(envelope, i) == Dict([id |-> envelope.id, error |-> PyInt(i)])

\* int(msg["id"]): [ok, n]
IntOf(x) ==
    CASE x.k = "int" -> [ok |-> TRUE, n |-> x.v]
      [] x.k = "bool" -> [ok |-> TRUE, n |-> IF x.v THEN 1 ELSE 0]
      [] x = Sym("0") -> [ok |-> TRUE, n |-> 0]
      [] x = Sym("1") -> [ok |-> TRUE, n |-> 1]
      [] OTHER -> [ok |-> FALSE, n |-> 0]

_now_ms == clock

\* a caller thread: re is the position of its envelope among the session's,
\* errs the number of errors the session had recorded when its wait began,
\* expired whether time.time() has reached the deadline of its wait
IdleCaller ==
    [pc |-> "idle", sess |-> "", rid |-> 0, re |-> 0, errs |-> 0, got |-> None, exc |-> "",
     expired |-> FALSE]

SessionInit ==
    /\ clock = 0
    /\ messages_url = [s \in ServerSet |-> None]
    /\ inbox = [s \in ServerSet |-> <<>>]
    /\ errors = [s \in ServerSet |-> <<>>]
    /\ reader = [s \in ServerSet |-> "none"]
    /\ stream = [s \in ServerSet |-> {}]
    /\ posted = [s \in ServerSet |-> <<>>]
    /\ conn = [s \in ServerSet |-> [pc |-> "new", rid |-> 0, init_resp |-> None]]
    /\ callers = [c \in 1..NumCallers |-> IdleCaller]

\* the envelope rpc() / notify() posts: a notification carries no id
\* status is the HTTP status of the POST; answered is set once the server has
\* written its response to the envelope, and answer is then the body of that
\* response where the reader of the response looks into it
Posted(id, method, url, by, status) ==
    [id |-> id, method |-> method, url |-> url, by |-> by, status |-> status,
     answered |-> FALSE, answer |-> NoMsg]

\* the statuses a POST may come back with: rpc() and notify() accept 200 and 202
PostStatuses == {202, 500}
Accepted(status) == status \in {200, 202}

\* what a completed handshake has posted on a session: the initialize
\* request, answered, and the initialized notification
HandshakePosts(s) ==
    <<[Posted(PyInt(0), "initialize", MessagesUrl(s, "/messages/"), 0, 202)
          EXCEPT !.answered = TRUE],
      Posted(None, "notifications/initialized", MessagesUrl(s, "/messages/"), 0, 202)>>

\* the sessions after connect_all() has returned
SessionsConnected ==
    /\ clock = 0
    /\ messages_url = [s \in ServerSet |-> MessagesUrl(s, "/messages/")]
    /\ inbox = [s \in ServerSet |-> <<>>]
    /\ errors = [s \in ServerSet |-> <<>>]
    /\ reader = [s \in ServerSet |-> "running"]
    /\ stream = [s \in ServerSet |-> {}]
    /\ posted = [s \in ServerSet |-> HandshakePosts(s)]
    /\ conn = [s \in ServerSet |->
                [pc |-> "ready", rid |-> 0,
                 init_resp |-> ResponseTo(HandshakePosts(s)[1], 1)]]
    /\ callers = [c \in 1..NumCallers |-> IdleCaller]

SessionVars == <<clock, messages_url, inbox, errors, reader, stream, posted, conn, callers>>

\* self._inbox[rid] = msg
InboxPut(box, rid, msg) ==
    [x \in DOMAIN box \cup {rid} |-> IF x = rid THEN msg ELSE box[x]]

\* a variant that reads the entry and leaves it in the inbox
InboxKept(box, rid) == box

\* what self._inbox.pop(rpc_id) leaves
InboxWithout(box, rid) == [x \in DOMAIN box \ {rid} |-> box[x]]

\* a variant of the pass that does not look at the recorded errors
WaitPollIgnoringErrors(box, errs, rpc_id) ==
    IF rpc_id \in DOMAIN box THEN "found" ELSE "again"

\* one pass of wait_for_id's loop, under the lock: the id is in the inbox
\* ("found"), else an error is recorded ("error"), else sleep ("again")
WaitPoll(box, errs, rpc_id) ==
    IF rpc_id \in DOMAIN box THEN "found"
    ELSE IF errs # <<>> THEN "error"
    ELSE "again"

\* on_event(ev) for a "message" event: the inbox afterwards
OnMessage(box, ev) ==
    IF ~ev.json THEN box
    ELSE IF ~(ev.data.k = "dict" /\ "id" \in DOMAIN ev.data.v) THEN box
    ELSE IF ~IntOf(ev.data.v["id"]).ok THEN box
    ELSE InboxPut(box, IntOf(ev.data.v["id"]).n, ev.data)

\* time passes
Tick ==
    /\ clock < MaxClock
    /\ clock' = clock + 1
    /\ UNCHANGED <<rq, allowlist_file, safe_summarize, messages_url, inbox, errors,
                   reader, stream, posted, conn, callers>>

\* the position of a server in the host's sessions dict
ServerIndex(s) == CHOOSE i \in 1..Len(Servers) : Servers[i] = s

\* a variant of connect_all() that starts a session's connect() whatever has
\* become of the sessions before it
ConnectStartAny(s) ==
    /\ conn[s].pc = "new"
    /\ reader' = [reader EXCEPT ![s] = "running"]
    /\ stream' = [stream EXCEPT ![s] = @ \cup {EndpointEvent("/messages/")}]
    /\ conn' = [conn EXCEPT ![s].pc = "wait_endpoint"]
    /\ UNCHANGED <<rq, allowlist_file, safe_summarize, clock, messages_url, inbox,
                   errors, posted, callers>>

\* connect_all() connects the sessions one after the other, and a connect()
\* that raises ends it.  connect(): the reader is started; the server opens
\* the stream with the endpoint event
ConnectStart(s) ==
    /\ conn[s].pc = "new"
    /\ \A t \in ServerSet : ServerIndex(t) < ServerIndex(s) => conn[t].pc = "ready"
    /\ reader' = [reader EXCEPT ![s] = "running"]
    /\ stream' = [stream EXCEPT ![s] = @ \cup {EndpointEvent("/messages/")}]
    /\ conn' = [conn EXCEPT ![s].pc = "wait_endpoint"]
    /\ UNCHANGED <<rq, allowlist_file, safe_summarize, clock, messages_url, inbox,
                   errors, posted, callers>>

\* SSEReader.run dispatches the next event of the stream to on_event
ReaderDispatch(s) ==
    /\ reader[s] = "running"
    /\ \E ev \in stream[s] :
          /\ stream' = [stream EXCEPT ![s] = @ \ {ev}]
          /\ IF ev.event = "endpoint"
             THEN /\ messages_url' = [messages_url EXCEPT ![s] = MessagesUrl(s, SymOf(ev.data))]
                  /\ UNCHANGED inbox
             ELSE /\ inbox' = [inbox EXCEPT ![s] = OnMessage(@, ev)]
                  /\ UNCHANGED messages_url
    /\ UNCHANGED <<rq, allowlist_file, safe_summarize, clock, errors, reader, posted,
                   conn, callers>>

\* the stream request fails: run() hands on_event the "__error__" record and ends
ReaderFails(s) ==
    /\ reader[s] = "running"
    /\ errors' = [errors EXCEPT ![s] = Append(@, "transport")]
    /\ reader' = [reader EXCEPT ![s] = "ended"]
    /\ UNCHANGED <<rq, allowlist_file, safe_summarize, clock, messages_url, inbox,
                   stream, posted, conn, callers>>

\* connect() 230-240 and initialize_handshake 319-326: the endpoint is known,
\* the initialize request is posted
ConnectInitialize(s) ==
    /\ conn[s].pc = "wait_endpoint"
    /\ messages_url[s] # None
    /\ \E status \in PostStatuses :
          /\ posted' = [posted EXCEPT ![s] =
                Append(@, Posted(PyInt(_now_ms), "initialize", messages_url[s], 0, status))]
          /\ conn' = [conn EXCEPT ![s].pc = IF Accepted(status) THEN "init_wait" ELSE "failed",
                                   ![s].rid = _now_ms]
    /\ UNCHANGED <<rq, allowlist_file, safe_summarize, clock, messages_url, inbox,
                   errors, reader, stream, callers>>

\* connect() 234-235: no endpoint event by the deadline
ConnectTimeout(s) ==
    /\ conn[s].pc = "wait_endpoint"
    /\ messages_url[s] = None
    /\ conn' = [conn EXCEPT ![s].pc = "failed"]
    /\ UNCHANGED <<rq, allowlist_file, safe_summarize, clock, messages_url, inbox,
                   errors, reader, stream, posted, callers>>

\* a variant of the handshake that does not look for "error" in the response
ConnectHandshakeTrusting(s) ==
    /\ conn[s].pc = "init_wait"
    /\ LET poll == WaitPoll(inbox[s], errors[s], conn[s].rid)
       IN  \/ /\ poll = "found"
              /\ inbox' = [inbox EXCEPT ![s] = InboxWithout(@, conn[s].rid)]
              /\ \E status \in PostStatuses :
                    /\ conn' = [conn EXCEPT ![s].pc =
                                   IF Accepted(status) THEN "ready" ELSE "failed",
                                 ![s].init_resp = inbox[s][conn[s].rid]]
                    /\ posted' = [posted EXCEPT ![s] =
                          Append(@, Posted(None, "notifications/initialized",
                                           messages_url[s], 0, status))]
           \/ /\ poll # "found"
              /\ conn' = [conn EXCEPT ![s].pc = "failed"]
              /\ UNCHANGED <<inbox, posted>>
    /\ UNCHANGED <<rq, allowlist_file, safe_summarize, clock, messages_url, errors,
                   reader, stream, callers>>

\* initialize_handshake 328-333: the wait for the initialize response ends;
\* a response without "error" is followed by the initialized notification
ConnectHandshake(s) ==
    /\ conn[s].pc = "init_wait"
    /\ LET poll == WaitPoll(inbox[s], errors[s], conn[s].rid)
       IN  \/ /\ poll = "found"
              /\ inbox' = [inbox EXCEPT ![s] = InboxWithout(@, conn[s].rid)]
              /\ IF "error" \in DOMAIN inbox[s][conn[s].rid].v
                 THEN /\ conn' = [conn EXCEPT ![s].pc = "failed",
                                              ![s].init_resp = inbox[s][conn[s].rid]]
                      /\ UNCHANGED posted
                 ELSE \E status \in PostStatuses :
                      /\ conn' = [conn EXCEPT ![s].pc =
                                     IF Accepted(status) THEN "ready" ELSE "failed",
                                   ![s].init_resp = inbox[s][conn[s].rid]]
                      /\ posted' = [posted EXCEPT ![s] =
                            Append(@, Posted(None, "notifications/initialized",
                                             messages_url[s], 0, status))]
           \/ /\ poll # "found"
              /\ conn' = [conn EXCEPT ![s].pc = "failed"]
              /\ UNCHANGED <<inbox, posted>>
    /\ UNCHANGED <<rq, allowlist_file, safe_summarize, clock, messages_url, errors,
                   reader, stream, callers>>

\* the requests of the callers among the envelopes posted on a session
CallerRequests(s) == {i \in 1..Len(posted[s]) : posted[s][i].by # 0}

\* how many requests the callers have posted so far
RpcCount(log) ==
    LET RECURSIVE Sum(_)
        Sum(S) == IF S = {} THEN 0
                  ELSE LET s == CHOOSE x \in S : TRUE
                       IN  Cardinality({i \in 1..Len(log[s]) : log[s][i].by # 0}) + Sum(S \ {s})
    IN  Sum(DOMAIN log)

\* a caller lists a session's tools before it calls one of them
NextMethod(c, s) ==
    IF \E i \in CallerRequests(s) : posted[s][i].by = c THEN "tools/call" ELSE "tools/list"

\* connect_all() has returned or raised: requests are made after it
ConnectAllOver ==
    \/ \A s \in ServerSet : conn[s].pc = "ready"
    \/ \E s \in ServerSet : conn[s].pc = "failed"

\* list_tools / call_tool: rpc() 254-281.  Without a message URL nothing is
\* posted; otherwise the id is read off the clock and the envelope is posted
CallerRpc(c, s) ==
    /\ callers[c].pc = "idle"
    /\ ConnectAllOver
    /\ RpcCount(posted) < MaxRpcs
    /\ IF messages_url[s] = None
       THEN /\ callers' = [callers EXCEPT ![c] =
                              [IdleCaller EXCEPT !.pc = "failed", !.sess = s,
                                                 !.exc = "MCPProtocolError"]]
            /\ UNCHANGED posted
       ELSE \E status \in PostStatuses :
            /\ posted' = [posted EXCEPT ![s] =
                  Append(@, Posted(PyInt(_now_ms), NextMethod(c, s), messages_url[s], c,
                                   status))]
            /\ callers' = [callers EXCEPT ![c] =
                  IF Accepted(status)
                  THEN [IdleCaller EXCEPT !.pc = "waiting", !.sess = s, !.rid = _now_ms,
                                          !.re = Len(posted[s]) + 1,
                                          !.errs = Len(errors[s])]
                  ELSE [IdleCaller EXCEPT !.pc = "failed", !.sess = s,
                                          !.exc = "MCPProtocolError"]]
    /\ UNCHANGED <<rq, allowlist_file, safe_summarize, clock, messages_url, inbox,
                   errors, reader, stream, conn>>

\* what the server may answer to the i-th envelope: a result or a JSON-RPC
\* error.  wait_for_id hands a caller either alike, so only the handshake's
\* initialize request is given both
Responses(envelope, i) ==
    IF envelope.method = "initialize"
    THEN {ResponseTo(envelope, i), ErrorResponseTo(envelope, i)}
    ELSE {ResponseTo(envelope, i)}

\* the server answers a request it accepted, in any order, on the stream
ServerResponds(s) ==
    /\ \E i \in 1..Len(posted[s]) :
          /\ posted[s][i].id # None
          /\ Accepted(posted[s][i].status)
          /\ ~posted[s][i].answered
          /\ \E response \in Responses(posted[s][i], i) :
                stream' = [stream EXCEPT ![s] = @ \cup {MessageEvent(response)}]
          /\ posted' = [posted EXCEPT ![s][i].answered = TRUE]
    /\ UNCHANGED <<rq, allowlist_file, safe_summarize, clock, messages_url, inbox,
                   errors, reader, conn, callers>>

\* wait_for_id 306-307: time goes by while the caller sleeps between two
\* passes, and reaches the deadline of its wait
DeadlinePasses(c) ==
    /\ callers[c].pc = "waiting"
    /\ ~callers[c].expired
    /\ callers' = [callers EXCEPT ![c].expired = TRUE]
    /\ UNCHANGED <<rq, allowlist_file, safe_summarize, clock, messages_url, inbox,
                   errors, reader, stream, posted, conn>>

\* wait_for_id 305-313: one pass of the loop, made before the deadline, that
\* ends the wait
CallerPoll(c) ==
    /\ callers[c].pc = "waiting"
    /\ ~callers[c].expired
    /\ LET s == callers[c].sess
           poll == WaitPoll(inbox[s], errors[s], callers[c].rid)
       IN  \/ /\ poll = "found"
              /\ callers' = [callers EXCEPT ![c].pc = "returned",
                                            ![c].got = inbox[s][callers[c].rid]]
              /\ inbox' = [inbox EXCEPT ![s] = InboxWithout(@, callers[c].rid)]
           \/ /\ poll = "error"
              /\ callers' = [callers EXCEPT ![c].pc = "failed",
                                            ![c].exc = "MCPProtocolError"]
              /\ UNCHANGED inbox
    /\ UNCHANGED <<rq, allowlist_file, safe_summarize, clock, messages_url, errors,
                   reader, stream, posted, conn>>

\* wait_for_id 307 and 314: the deadline has passed, the loop is left
CallerTimeout(c) ==
    /\ callers[c].pc = "waiting"
    /\ callers[c].expired
    /\ callers' = [callers EXCEPT ![c].pc = "failed", ![c].exc = "TimeoutError"]
    /\ UNCHANGED <<rq, allowlist_file, safe_summarize, clock, messages_url, inbox,
                   errors, reader, stream, posted, conn>>

\* the caller's list_tools / call_tool is over; the thread is free for another
CallerDone(c) ==
    /\ callers[c].pc \in {"returned", "failed"}
    /\ callers' = [callers EXCEPT ![c] = IdleCaller]
    /\ UNCHANGED <<rq, allowlist_file, safe_summarize, clock, messages_url, inbox,
                   errors, reader, stream, posted, conn>>

-----------------------------------------------------------------------------
(* Spec: requests through the pipeline, one after another as the CLI loop     *)
(* of main() issues them, against sessions that connect_all() has connected.  *)

Environment == <<allowlist_file, safe_summarize>>

Init ==
    /\ rq = NoRequest
    /\ allowlist_file \in AllowlistFiles
    /\ safe_summarize \in BOOLEAN
    /\ SessionsConnected

\* main(): the next "ask" line; the host is ready again after a response or an error
StartRequest ==
    /\ rq.pc \in {"idle", "done", "raised"}
    /\ \E mode \in {"ask_once", "run_once"}, q \in Queries, trace_dir \in TraceDirs :
          \E trace_id \in IF trace_dir = None THEN {"1f0e"} ELSE TraceIds :
             rq' = Traced(NewRequest(mode, q), trace_dir, trace_id)
    /\ UNCHANGED <<Environment, SessionVars>>

NodePolicyGate ==
    /\ rq.pc = "policy_gate"
    /\ rq' = PolicyGate(rq)
    /\ UNCHANGED <<Environment, SessionVars>>

NodeDiscoverTools ==
    /\ rq.pc = "discover_tools"
    /\ \E outcome \in RpcOutcomes(ToolsListAnswers(Servers[Len(rq.tools_payload) + 1])) :
          rq' = DiscoverTools(rq, outcome)
    /\ UNCHANGED <<Environment, SessionVars>>

NodePlan ==
    /\ rq.pc = "plan"
    /\ \E outcome \in PlannerOutcomes : rq' = Plan(rq, outcome)
    /\ UNCHANGED <<Environment, SessionVars>>

NodeValidateAndSelect ==
    /\ rq.pc = "validate_and_select"
    /\ rq' = ValidateAndSelect(rq)
    /\ UNCHANGED <<Environment, SessionVars>>

NodeCallTool ==
    /\ rq.pc = "call_tool"
    /\ \E outcome \in RpcOutcomes(ToolCallAnswers(rq.tool, rq.args)) :
          rq' = CallTool(rq, outcome)
    /\ UNCHANGED <<Environment, SessionVars>>

NodeGroundedSummarize ==
    /\ rq.pc = "grounded_summarize"
    /\ \E outcome \in SummarizerOutcomes : rq' = GroundedSummarize(rq, outcome)
    /\ UNCHANGED <<Environment, SessionVars>>

Next ==
    \/ StartRequest
    \/ NodePolicyGate
    \/ NodeDiscoverTools
    \/ NodePlan
    \/ NodeValidateAndSelect
    \/ NodeCallTool
    \/ NodeGroundedSummarize

Spec == Init /\ [][Next]_vars

-----------------------------------------------------------------------------
(* SpecSession: the sessions from construction on: connect(), the reader,     *)
(* the server, and caller threads that use the sessions at the same time.     *)

InitSession ==
    /\ rq = NoRequest
    /\ allowlist_file = None
    /\ safe_summarize = FALSE
    /\ SessionInit

NextSession ==
    \/ Tick
    \/ \E s \in ServerSet : ConnectStart(s)
    \/ \E s \in ServerSet : ReaderDispatch(s)
    \/ \E s \in ServerSet : ReaderFails(s)
    \/ \E s \in ServerSet : ConnectInitialize(s)
    \/ \E s \in ServerSet : ConnectTimeout(s)
    \/ \E s \in ServerSet : ConnectHandshake(s)
    \/ \E c \in 1..NumCallers, s \in ServerSet : CallerRpc(c, s)
    \/ \E s \in ServerSet : ServerResponds(s)
    \/ \E c \in 1..NumCallers : DeadlinePasses(c)
    \/ \E c \in 1..NumCallers : CallerPoll(c)
    \/ \E c \in 1..NumCallers : CallerTimeout(c)
    \/ \E c \in 1..NumCallers : CallerDone(c)

SpecSession == InitSession /\ [][NextSession]_vars

-----------------------------------------------------------------------------
(* SpecWait: the callers' list_tools / call_tool on the sessions of a host    *)
(* that connect_all() has connected, with caller threads that are scheduled.  *)

InitWait ==
    /\ rq = NoRequest
    /\ allowlist_file = None
    /\ safe_summarize = FALSE
    /\ SessionsConnected

NextWait ==
    \/ Tick
    \/ \E s \in ServerSet : ReaderDispatch(s)
    \/ \E s \in ServerSet : ReaderFails(s)
    \/ \E c \in 1..NumCallers, s \in ServerSet : CallerRpc(c, s)
    \/ \E s \in ServerSet : ServerResponds(s)
    \/ \E c \in 1..NumCallers : DeadlinePasses(c)
    \/ \E c \in 1..NumCallers : CallerPoll(c)
    \/ \E c \in 1..NumCallers : CallerTimeout(c)
    \/ \E c \in 1..NumCallers : CallerDone(c)

\* a thread that can leave its wait, by a pass that finds its response or an
\* error or because the deadline has passed, does so.  Nothing is assumed of
\* the servers, the readers or the passing of time
SpecWait ==
    /\ InitWait
    /\ [][NextWait]_vars
    /\ \A c \in 1..NumCallers : WF_vars(CallerPoll(c)) /\ WF_vars(CallerTimeout(c))

-----------------------------------------------------------------------------
(* SpecConcurrent: threads that each run one request through the pipeline at  *)
(* the same time, on the sessions of one host.  rq is here the function from  *)
(* a thread to its request, and callers[t] is the rpc() / wait_for_id() the   *)
(* thread is in.                                                              *)

ConcurrentQueries == {<<"Fetch", "sp-001">>}

ConcurrentPlannerOutcomes ==
    {Returned(Dict(JsonBodies.fetch_sp)),
     Returned(CallToolPlan("mcp-sharepoint", "delete_sharepoint_doc", "doc_id", "sp-001"))}

InitConcurrent ==
    /\ rq = [t \in 1..NumCallers |-> NoRequest]
    /\ allowlist_file \in {f \in AllowlistFiles : f = None \/ DOMAIN f.v = {"mcp-sharepoint"}}
    /\ safe_summarize = FALSE
    /\ SessionsConnected

\* the steps of a request that use no session, up to its next list_tools /
\* call_tool or to its end: plan is what the planner answers if it is asked
LocalSteps(r, plan) ==
    LET r1 == IF r.pc = "policy_gate" THEN PolicyGate(r) ELSE r
        r2 == IF r1.pc = "plan" THEN Plan(r1, plan) ELSE r1
        r3 == IF r2.pc = "validate_and_select" THEN ValidateAndSelect(r2) ELSE r2
    IN  IF r3.pc = "grounded_summarize"
        THEN GroundedSummarize(r3, Raised("RuntimeError"))
        ELSE r3

\* the request after its list_tools / call_tool ended with outcome, at its
\* next one or at its end
RpcStep(r, outcome, plan) ==
    LocalSteps(IF r.pc = "discover_tools" THEN DiscoverTools(r, outcome)
               ELSE CallTool(r, outcome), plan)

\* the session and the method of the request's next envelope
RpcSession(r) ==
    IF r.pc = "discover_tools" THEN Servers[Len(r.tools_payload) + 1] ELSE r.server

RpcMethod(r) == IF r.pc = "discover_tools" THEN "tools/list" ELSE "tools/call"

\* the body of a response message: the server's answer to the envelope the
\* message was written for
Body(s, msg) == posted[s][msg.v["result"].v].answer

\* a thread enters ask_once / run_once
ThreadStart(t) ==
    /\ rq[t].pc = "idle"
    /\ \E mode \in {"ask_once", "run_once"}, q \in ConcurrentQueries :
          rq' = [rq EXCEPT ![t] = LocalSteps(NewRequest(mode, q), Raised("RuntimeError"))]
    /\ UNCHANGED <<Environment, SessionVars>>

\* sess.list_tools() / host.call(): rpc() posts the envelope under an id read
\* off the clock.  The servers of this specification accept every POST
ThreadRpc(t) ==
    /\ rq[t].pc \in {"discover_tools", "call_tool"}
    /\ callers[t].pc = "idle"
    /\ \E plan \in ConcurrentPlannerOutcomes :
        IF RpcSession(rq[t]) \notin ServerSet
        THEN /\ rq' = [rq EXCEPT ![t] = RpcStep(rq[t], Raised("KeyError"), plan)]
             /\ UNCHANGED <<posted, callers>>
        ELSE LET s == RpcSession(rq[t])
             IN  \E status \in {x \in PostStatuses : Accepted(x)} :
                   /\ posted' = [posted EXCEPT ![s] =
                         Append(@, Posted(PyInt(_now_ms), RpcMethod(rq[t]), messages_url[s],
                                          t, status))]
                   /\ IF Accepted(status)
                      THEN /\ callers' = [callers EXCEPT ![t] =
                                 [IdleCaller EXCEPT !.pc = "waiting", !.sess = s,
                                                    !.rid = _now_ms,
                                                    !.re = Len(posted[s]) + 1,
                                                    !.errs = Len(errors[s])]]
                           /\ UNCHANGED rq
                      ELSE /\ rq' = [rq EXCEPT ![t] =
                                       RpcStep(rq[t], Raised("MCPProtocolError"), plan)]
                           /\ UNCHANGED callers
    /\ UNCHANGED <<Environment, clock, messages_url, inbox, errors, reader, stream, conn>>

\* what the server of session s may answer to an envelope: a tools/list
\* result, which may differ from one request to the next as the server's tools
\* change, or the result of the tool called
Answers(s, envelope) ==
    IF envelope.method = "tools/list"
    THEN {a \in ToolsListAnswers(s) : a # ErrorMsg /\ Tools(a) # <<>>}
    ELSE {a \in ToolCallAnswers(rq[envelope.by].tool, rq[envelope.by].args) :
            /\ parse_typed_tool_output(s, rq[envelope.by].tool, a).ok
            /\ Get(a.result, "structuredContent").v[2].val \in {Sym("DELETED"), Str(<<"a", "b">>)}}

\* the server answers a request it accepted, in any order, on the stream
ServerAnswers(s) ==
    /\ \E i \in 1..Len(posted[s]) :
          /\ posted[s][i].id # None
          /\ Accepted(posted[s][i].status)
          /\ ~posted[s][i].answered
          /\ stream' = [stream EXCEPT ![s] =
                           @ \cup {MessageEvent(ResponseTo(posted[s][i], i))}]
          /\ \E answer \in Answers(s, posted[s][i]) :
                posted' = [posted EXCEPT ![s][i].answered = TRUE, ![s][i].answer = answer]
    /\ UNCHANGED <<rq, Environment, clock, messages_url, inbox, errors, reader, conn,
                   callers>>

\* wait_for_id: the pass of the loop that ends the wait, and the steps of the
\* pipeline that follow with what the wait returned or raised.  The readers
\* of this specification stay up, so that no error is recorded
ThreadWait(t) ==
    /\ callers[t].pc = "waiting"
    /\ LET s == callers[t].sess
           poll == WaitPoll(inbox[s], errors[s], callers[t].rid)
       IN  \E plan \in ConcurrentPlannerOutcomes :
           \/ /\ poll = "found"
              /\ rq' = [rq EXCEPT ![t] =
                           RpcStep(rq[t], Returned(Body(s, inbox[s][callers[t].rid])), plan)]
              /\ inbox' = [inbox EXCEPT ![s] = InboxWithout(@, callers[t].rid)]
           \/ /\ poll = "error"
              /\ rq' = [rq EXCEPT ![t] = RpcStep(rq[t], Raised("MCPProtocolError"), plan)]
              /\ UNCHANGED inbox
    /\ callers' = [callers EXCEPT ![t] = IdleCaller]
    /\ UNCHANGED <<Environment, clock, messages_url, errors, reader, stream, posted, conn>>

NextConcurrent ==
    \/ Tick
    \/ \E s \in ServerSet : ReaderDispatch(s)
    \/ \E s \in ServerSet : ServerAnswers(s)
    \/ \E t \in 1..NumCallers : ThreadStart(t)
    \/ \E t \in 1..NumCallers : ThreadRpc(t)
    \/ \E t \in 1..NumCallers : ThreadWait(t)

SpecConcurrent == InitConcurrent /\ [][NextConcurrent]_vars

-----------------------------------------------------------------------------
(* SpecGates: the gates as functions, each applied to inputs drawn from the   *)
(* sets below.  rq is here the application: the gate, its arguments and what  *)
(* it returned.                                                               *)

\* the catalogs discovery can build
GateCatalogs ==
    {build_tool_catalog(OkTools(PayloadMap(<<a, b>>))) :
        a \in ToolsListAnswers(Servers[1]), b \in ToolsListAnswers(Servers[2])}

SearchPlan(args) ==
    Dict([type |-> Sym("call_tool"), server |-> Sym("mcp-sharepoint"),
          tool |-> Sym("search_sharepoint"), args |-> args])

\* the plans the strict JSON gate can hand to validation
GatePlans ==
    {p \in PlannerReplies : p.k = "dict"}
    \cup {SearchPlan(Dict([query |-> Sym("pii"), top_k |-> k])) :
            k \in {PyInt(3), Bool(TRUE), Sym("3")}}
    \cup {SearchPlan(Dict([top_k |-> PyInt(3)])), SearchPlan(Sym("pii")),
          SearchPlan(List(<<>>)),
          Dict([type |-> Sym("call_tool"), server |-> Sym("mcp-sharepoint"),
                tool |-> List(<<>>), args |-> EmptyDict]),
          Dict([type |-> Sym("call_tool")]),
          Dict([type |-> List(<<>>)]),
          EmptyDict}

\* what config/allowlist.json may hold, with files that are not a JSON object
\* and entries that are not a server's array of names
GateAllowlistFiles ==
    AllowlistFiles
    \cup {Unparseable, List(<<>>), EmptyDict,
          Dict([s \in {"mcp-sharepoint", "mcp-servicenow", " "} |->
                  IF s = "mcp-sharepoint" THEN Sym("fetch_sharepoint_doc")
                  ELSE Names(<<"get_ticket">>)]),
          Dict([s \in {"mcp-sharepoint", "mcp-servicenow"} |->
                  IF s = "mcp-sharepoint"
                  THEN List(<<Sym("fetch_sharepoint_doc"), Str(<<" ">>), PyInt(1)>>)
                  ELSE Names(<<"get_ticket">>)])}

InitGates ==
    /\ rq = [gate |-> "none"]
    /\ allowlist_file \in GateAllowlistFiles
    /\ safe_summarize = FALSE
    /\ SessionsConnected

ApplyValidatePlan ==
    /\ rq.gate = "none"
    /\ \E plan \in GatePlans, tool_catalog \in GateCatalogs :
          rq' = [gate |-> "validate_plan", plan |-> plan, tool_catalog |-> tool_catalog,
                 result |-> validate_plan(plan, tool_catalog)]
    /\ UNCHANGED <<Environment, SessionVars>>

ApplyConfiguredAllowlist ==
    /\ rq.gate = "none"
    /\ \E a \in ToolsListAnswers(Servers[1]), b \in ToolsListAnswers(Servers[2]) :
          LET discovered == build_allowlist_from_tools_payload(OkTools(PayloadMap(<<a, b>>)))
              configured == load_allowlist_json(allowlist_file).allowlist
          IN  rq' = [gate |-> "apply_configured_allowlist", discovered |-> discovered,
                     configured |-> configured,
                     result |-> apply_configured_allowlist(discovered, configured)]
    /\ UNCHANGED <<Environment, SessionVars>>

\* the tool names of the services
ToolNames ==
    {"search_sharepoint", "fetch_sharepoint_doc", "delete_sharepoint_doc",
     "fetch_policy_entry", "get_ticket"}

ApplyEnforceToolAllowlist ==
    /\ rq.gate = "none"
    /\ \E a \in ToolsListAnswers(Servers[1]), b \in ToolsListAnswers(Servers[2]),
          server \in ServerSet \cup {"mcp-servicenow"}, tool \in ToolNames :
          LET allowlist ==
                apply_configured_allowlist(
                    build_allowlist_from_tools_payload(OkTools(PayloadMap(<<a, b>>))),
                    load_allowlist_json(allowlist_file).allowlist)
          IN  rq' = [gate |-> "enforce_tool_allowlist", server |-> server, tool |-> tool,
                     allowlist |-> allowlist,
                     result |-> enforce_tool_allowlist(server, tool, allowlist)]
    /\ UNCHANGED <<Environment, SessionVars>>

\* a request that has discovered tools_payload and holds plan
Discovered(mode, tools_payload, plan) ==
    [AfterDiscovery([PolicyGate(NewRequest(mode, <<"find", "pii">>)) EXCEPT
                        !.tools_payload = tools_payload])
        EXCEPT !.plan = plan, !.pc = "validate_and_select"]

\* gates 2 and 3 in a row, as a request goes through them after discovery
ApplyValidateAndSelect ==
    /\ rq.gate = "none"
    /\ \E a \in ToolsListAnswers(Servers[1]), b \in ToolsListAnswers(Servers[2]),
          plan \in GatePlans, mode \in {"ask_once", "run_once"} :
          rq' = [gate |-> "validate_and_select",
                 before |-> Discovered(mode, <<a, b>>, plan),
                 result |-> ValidateAndSelect(Discovered(mode, <<a, b>>, plan))]
    /\ UNCHANGED <<Environment, SessionVars>>

ApplyLoadAllowlistJson ==
    /\ rq.gate = "none"
    /\ rq' = [gate |-> "load_allowlist_json", file |-> allowlist_file,
              result |-> load_allowlist_json(allowlist_file)]
    /\ UNCHANGED <<Environment, SessionVars>>

\* what may reach the strict JSON gate: the planner's replies, and texts and
\* values that are no JSON object on its own ("~~~" is a code fence)
GateRaws ==
    PlannerReplies
    \cup {Str(<<"\n", " ", "{", "fetch_sp", "}", " ", "\n">>),
          Str(<<"{", "fetch_sp", "}", "\n", "Thanks!">>),
          Str(<<"~~~json", "\n", "{", "fetch_sp", "}", "\n", "~~~">>),
          Str(<<"[", "{", "fetch_sp", "}", "]">>),
          Str(<<"[", "]">>),
          Str(<<"not json">>), Str(<<"123">>), Str(<<"null">>), Str(<<>>),
          Str(<<"{", "not json", "}">>), Str(<<"{", "}", "{", "}">>),
          Str(<<"{", " ", "}">>),
          PyInt(123), None, Bool(TRUE), List(<<Dict(JsonBodies.fetch_sp)>>)}

ApplyParseStrictJsonPlan ==
    /\ rq.gate = "none"
    /\ \E raw \in GateRaws :
          rq' = [gate |-> "parse_strict_json_plan", raw |-> raw,
                 result |-> parse_strict_json_plan(raw)]
    /\ UNCHANGED <<Environment, SessionVars>>

\* the items a summary may hold, and the lists of at most max of them
GateItems ==
    {Dict([claim |-> c, evidence |-> e]) :
        c \in {Str(<<"c">>), Str(<<" ">>)}, e \in {Str(<<"a">>), Str(<<"z">>), Str(<<" ">>)}}
    \cup {Dict([claim |-> Str(<<"c">>)]), Str(<<"a">>)}

GateItemLists(max) ==
    {List(<<>>), None, Sym("a")}
    \cup {List(<<x>>) : x \in GateItems}
    \cup IF max < 2 THEN {} ELSE {List(<<x, y>>) : x, y \in GateItems}

\* the summaries that may reach the grounding gate
GateSummaries ==
    {Dict([type |-> Sym("summary"), bullets |-> b, risks |-> r, recommendations |-> c]) :
        b \in GateItemLists(2), r \in GateItemLists(1), c \in GateItemLists(1)}
    \cup {x \in SummarizerReplies : x.k # "dict" \/ Get(x, "type") # Sym("summary")}

ApplyValidateGroundedSummary ==
    /\ rq.gate = "none"
    /\ \E summary \in GateSummaries, source_text \in {<<"a", " ", "b">>, <<"b">>} :
          rq' = [gate |-> "validate_grounded_summary", summary |-> summary,
                 source_text |-> source_text,
                 result |-> GroundingErrorOf(summary, source_text)]
    /\ UNCHANGED <<Environment, SessionVars>>

\* the tool responses that may reach the typed parser
GateCallAnswers ==
    LET args == Dict([doc_id |-> Sym("sp-001"), policy_id |-> Sym("policy-001"),
                      ticket_id |-> Sym("INC001"), query |-> Sym("pii")])
        doc == Obj(<<Member("doc_id", Sym("sp-001")), Member("content", Str(<<"a", "b">>))>>)
        hit == Obj(<<Member("doc_id", Sym("sp-001")), Member("title", Sym("PII"))>>)
        search(results) == <<Member("query", Sym("pii")), Member("results", results)>>
    IN  UNION {ToolCallAnswers(tool, args) : tool \in ToolNames}
        \cup {ResultMsg(List(<<>>)),
              ResultMsg(Dict([structuredContent |-> doc])),
              ResultMsg(Dict([isError |-> Bool(FALSE)])),
              CallResult(doc, TRUE),
              CallResult(Obj(<<Member("query", Sym("pii"))>>), FALSE),
              CallResult(Obj(<<Member("results", List(<<>>))>>), FALSE),
              CallResult(Obj(search(Sym("none"))), FALSE),
              CallResult(Obj(search(List(<<hit>>))), FALSE)}

ApplyParseTypedToolOutput ==
    /\ rq.gate = "none"
    /\ \E server \in ServerSet \cup {"mcp-servicenow"},
          tool \in ToolNames \cup {"unregistered_tool"},
          resp \in GateCallAnswers :
          rq' = [gate |-> "parse_typed_tool_output", server |-> server, tool |-> tool,
                 resp |-> resp, result |-> parse_typed_tool_output(server, tool, resp)]
    /\ UNCHANGED <<Environment, SessionVars>>

\* the texts that may reach the policy gate
GateQueries ==
    Queries
    \cup {<<"How", "do", "I", "hack", "a", "website?">>,
          <<"Find", "the", "PII", "logging", "policy">>,
          <<"hack", "sp-001">>, <<"Hack", "sp-001">>, <<"hacK", "sp-001">>,
          <<"hacking", "sp-001">>,
          <<"detonator", "HACK">>, <<"detonator", "hack">>,
          <<"credential", "Kill", "myself">>, <<"credential", "kill", "myself">>,
          <<"kill", "a", "myself">>, <<"Kill", "myself">>,
          <<"build", "a", "bomb">>, <<"build", "bomb">>}

ApplyPolicyCheckUserQuery ==
    /\ rq.gate = "none"
    /\ \E q \in GateQueries :
          rq' = [gate |-> "policy_check_user_query", q |-> q,
                 result |-> policy_check_user_query(q)]
    /\ UNCHANGED <<Environment, SessionVars>>

\* a float of Python
PyFloat(x) == [k |-> "float", v |-> x]

\* the type names an inputSchema may declare and the values an argument may be
GateTypeNames ==
    {"string", "integer", "number", "boolean", "object", "array", "null", "int", "str", ""}
GateValues ==
    {None, Bool(TRUE), Bool(FALSE), PyInt(0), PyInt(1), PyFloat(1), Sym("a"), Str(<<>>),
     Sym("1"), EmptyDict, Dict([a |-> PyInt(1)]), List(<<>>), List(<<PyInt(1)>>)}

ApplyTypeOk ==
    /\ rq.gate = "none"
    /\ \E jsonschema_type \in GateTypeNames, value \in GateValues :
          rq' = [gate |-> "_type_ok", jsonschema_type |-> jsonschema_type, value |-> value,
                 result |-> _type_ok(jsonschema_type, value)]
    /\ UNCHANGED <<Environment, SessionVars>>

\* the texts without an identifier and without a request for a summary
PlainQueries ==
    {q \in GateQueries : _deterministic_plan_from_ids(q) = None /\ ~_wants_summary(q)}

\* a request through an orchestrator up to its tools/call: gate 0, discovery
\* on both sessions, the planner, validation and the allowlist gate
UpToCall(mode, q, d1, d2, planned) ==
    LET r1 == PolicyGate(NewRequest(mode, q))
        r2 == IF r1.pc = "discover_tools" THEN DiscoverTools(DiscoverTools(r1, d1), d2)
              ELSE r1
        r3 == IF r2.pc = "plan" THEN Plan(r2, planned) ELSE r2
    IN  IF r3.pc = "validate_and_select" THEN ValidateAndSelect(r3) ELSE r3

\* the rest of the request: the call, typed parsing, the summarize step
AfterCall(r, called, summarized) ==
    LET r1 == IF r.pc = "call_tool" THEN CallTool(r, called) ELSE r
    IN  IF r1.pc = "grounded_summarize" THEN GroundedSummarize(r1, summarized) ELSE r1

\* how a request has ended: returned ("done") or raised, its response, and
\* the tools/call envelopes it posted
Ended(r) ==
    [pc |-> r.pc, exc |-> r.exc, output |-> r.output,
     calls |-> SelectSeq(r.rpcs, LAMBDA e : e.method = "tools/call"),
     summarizer_calls |-> r.summarizer_calls]

\* ask_once and run_once on the same text, with the same answers of the
\* sessions and of the planner
ApplyOrchestrators ==
    /\ rq.gate = "none"
    /\ \E q \in PlainQueries, planned \in PlannerOutcomes,
          d1 \in RpcOutcomes(ToolsListAnswers(Servers[1])),
          d2 \in RpcOutcomes(ToolsListAnswers(Servers[2])) :
          LET a == UpToCall("ask_once", q, d1, d2, planned)
              b == UpToCall("run_once", q, d1, d2, planned)
              answers == IF a.pc = "call_tool"
                         THEN RpcOutcomes(ToolCallAnswers(a.tool, a.args))
                         ELSE IF b.pc = "call_tool"
                         THEN RpcOutcomes(ToolCallAnswers(b.tool, b.args))
                         ELSE {Raised("MCPProtocolError")}
          IN  \E called \in answers :
                 rq' = [gate |-> "orchestrators", user_query |-> q,
                        ask_once |-> Ended(AfterCall(a, called, Raised("RuntimeError"))),
                        run_once |-> Ended(AfterCall(b, called, Raised("RuntimeError")))]
    /\ UNCHANGED <<Environment, SessionVars>>

NextGates ==
    \/ ApplyTypeOk
    \/ ApplyOrchestrators
    \/ ApplyLoadAllowlistJson
    \/ ApplyPolicyCheckUserQuery
    \/ ApplyParseTypedToolOutput
    \/ ApplyValidateGroundedSummary
    \/ ApplyParseStrictJsonPlan
    \/ ApplyValidatePlan
    \/ ApplyConfiguredAllowlist
    \/ ApplyEnforceToolAllowlist
    \/ ApplyValidateAndSelect

SpecGates == InitGates /\ [][NextGates]_vars

-----------------------------------------------------------------------------
(* Properties of the pipeline (Spec) *)

\* the operator's allowlist as loaded, None when there is none
Configured == load_allowlist_json(allowlist_file).allowlist

\* the positions of a request's tools/call and tools/list envelopes
Calls(r) == {i \in 1..Len(r.rpcs) : r.rpcs[i].method = "tools/call"}
Lists(r) == {i \in 1..Len(r.rpcs) : r.rpcs[i].method = "tools/list"}

\* what the server answered to the request's tools/list, an inline error if
\* the request has not listed the server
ListAnswer(r, server) ==
    IF server \in ServerSet /\ ServerIndex(server) <= Len(r.tools_payload)
    THEN r.tools_payload[ServerIndex(server)]
    ELSE InlineError

\* the request is over: a response was returned or an exception left it
Over(r) == r.pc \in {"done", "raised"}

\* C1: a tools/call envelope for (server, tool, args) is posted only if, in
\* the same request, a tools/list was sent to the server before and answered
\* with a result that lists the tool, the operator's allowlist (when there is
\* one) names the tool for that server, and args is an object that meets the
\* listed input schema; for planner plans and for forced plans alike.
C1_CallOnlyListedAllowedValid ==
    \A i \in Calls(rq) :
        LET e == rq.rpcs[i]
            answer == ListAnswer(rq, e.server)
            listed == {k \in 1..Len(answer.result.v) : answer.result.v[k].name = e.name}
        IN  /\ \E j \in 1..(i - 1) : rq.rpcs[j] = Envelope(e.server, "tools/list", "", EmptyDict)
            /\ answer.kind = "result"
            /\ listed # {}
            /\ Configured # None =>
                  /\ e.server \in DOMAIN Configured.v
                  /\ e.name \in Configured.v[e.server]
            /\ e.arguments.k = "dict"
            /\ \E k \in listed : ArgsMatchSchema(e.arguments, answer.result.v[k].inputSchema)

\* a forced plan's tool was called under a configured allowlist
C1_Witness ==
    /\ rq.forced
    /\ allowlist_file # None
    /\ Calls(rq) # {}
    /\ rq.pc = "done"

\* C2: a request posts at most one tools/call envelope, also when the wait
\* for its response times out or fails.
C2_AtMostOneCall == Cardinality(Calls(rq)) <= 1

\* the wait of the one tools/call timed out and the request ended there
C2_Witness ==
    /\ rq.pc = "raised"
    /\ rq.exc = "TimeoutError"
    /\ Cardinality(Calls(rq)) = 1

\* C3: once the policy gate has seen a text it rejects, the request is over
\* with a response of type blocked, and it has sent no tools/list and no
\* tools/call and has not invoked the planner.
C3_RejectedTextBlocked ==
    (rq.pc \notin {"idle", "policy_gate"} /\ ~policy_check_user_query(rq.user_query).allowed)
        => /\ rq.pc = "done"
           /\ rq.output.type = "blocked"
           /\ rq.rpcs = <<>>
           /\ rq.planner_calls = 0

\* a text with an identifier in it was rejected by the policy gate
C3_Witness ==
    /\ rq.pc = "done"
    /\ rq.user_query = <<"HACK", "sp-001">>
    /\ rq.output.type = "blocked"
    /\ rq.output.reason[1] = "policy"

\* needs_more_info is true and answer is a string with a non-space character
GoodFinalAnswer(plan) ==
    /\ Get(plan, "needs_more_info") = Bool(TRUE)
    /\ Get(plan, "answer").k = "str"
    /\ \E i \in 1..Len(Get(plan, "answer").v) : ~IsSpace(Get(plan, "answer").v[i])

\* C4: after validation, a request whose plan is a final_answer with
\* needs_more_info true and a non-blank string answer is over with a response
\* of type final_answer, no tools/call and no summarizer call; one whose
\* final_answer plan is not of that form is blocked by validation.
C4_FinalAnswer ==
    (/\ rq.pc \notin {"idle", "policy_gate", "discover_tools", "plan", "validate_and_select"}
     /\ rq.plan.k = "dict"
     /\ Get(rq.plan, "type") = Sym("final_answer"))
        => /\ rq.pc = "done"
           /\ Calls(rq) = {}
           /\ rq.summarizer_calls = 0
           /\ IF GoodFinalAnswer(rq.plan)
              THEN rq.output.type = "final_answer"
              ELSE /\ rq.output.type = "blocked"
                   /\ rq.output.reason = <<"Plan validation failed">>

\* a final answer with blanks around it was returned, trimmed
C4_Witness ==
    /\ rq.pc = "done"
    /\ rq.output.type = "final_answer"
    /\ Get(rq.plan, "answer") = Str(<<" ", "o", "k", "\n">>)
    /\ rq.output.answer = <<"o", "k">>

\* the evidence strings of a summary, over its three sections
EvidenceOf(summary) ==
    UNION {{Get(Get(summary, SummarySections[n]).v[i], "evidence").v :
               i \in 1..Len(Get(summary, SummarySections[n]).v)} :
           n \in 1..Len(SummarySections)}

\* C5 as stated: in a response of type tool_result_with_summary every
\* evidence string is a substring of the serialization of the typed payload.
C5_EvidenceInSerializedPayload ==
    rq.output.type = "tool_result_with_summary"
        => \A ev \in EvidenceOf(rq.output.summary) :
              IsSubstring(ev, JsonDumps(rq.output.typed, 0))

\* C5, amended: every evidence string is a substring of the canonical source
\* text: the serialization of the typed payload, which ask_once cuts at
\* max_chars and ends with the truncation marker when it is longer.
C5_EvidenceInSourceText ==
    rq.output.type = "tool_result_with_summary"
        => LET full == JsonDumps(rq.output.typed, 0)
               canonical == IF rq.mode = "ask_once" /\ Len(full) > MaxChars
                            THEN SubSeq(full, 1, MaxChars) \o TruncationMarker
                            ELSE full
           IN  \A ev \in EvidenceOf(rq.output.summary) :
                  /\ ev # <<>>
                  /\ IsSubstring(ev, canonical)

\* ask_once returned a summary of a payload longer than max_chars
C5_Witness ==
    /\ rq.mode = "ask_once"
    /\ rq.output.type = "tool_result_with_summary"
    /\ Len(JsonDumps(rq.output.typed, 0)) > MaxChars
    /\ EvidenceOf(rq.output.summary) # {}

\* the planner's reply did not pass the strict JSON gate
PlanGateRejected(r) ==
    /\ r.planner_calls > 0
    /\ r.raw_plan # None
    /\ ~parse_strict_json_plan(r.raw_plan).ok

\* C6 as stated: no tools/list is sent before the plan exists, and a request
\* whose planner reply the strict JSON gate rejects has sent no tools/list.
C6_PlanBeforeDiscovery ==
    /\ Lists(rq) # {} => (rq.planner_calls > 0 \/ rq.forced)
    /\ PlanGateRejected(rq) => Lists(rq) = {}

\* C6, amended: discovery comes first.  When the planner is invoked or the
\* forced plan is made, a tools/list has been sent to every session; a request
\* whose planner reply the strict JSON gate rejects ends blocked, after
\* discovery, without a tools/call.
C6_DiscoveryBeforePlan ==
    /\ (rq.planner_calls > 0 \/ rq.forced \/ rq.plan # None)
          => \A s \in ServerSet :
                \E i \in Lists(rq) : rq.rpcs[i] = Envelope(s, "tools/list", "", EmptyDict)
    /\ PlanGateRejected(rq)
          => /\ rq.pc = "done"
             /\ rq.output.type = "blocked"
             /\ rq.output.reason = <<"Planner output rejected">>
             /\ Calls(rq) = {}

\* a planner reply was rejected by the strict JSON gate after discovery
C6_Witness ==
    /\ PlanGateRejected(rq)
    /\ rq.pc = "done"
    /\ Cardinality(Lists(rq)) = Len(Servers)

\* the request has reached its plan step
Planned(r) == r.planner_calls > 0 \/ r.plan # None

\* C7 as stated: in ask_once and run_once alike, a request whose text holds
\* an identifier gets the forced plan and does not invoke the planner.
C7_ShortcutEverywhere ==
    (Planned(rq) /\ _deterministic_plan_from_ids(rq.user_query) # None)
        => /\ rq.plan = _deterministic_plan_from_ids(rq.user_query)
           /\ rq.planner_calls = 0

\* C7, amended: only run_once has the shortcut.  There a request that passes
\* the policy gate and whose text holds an identifier gets the forced plan
\* without a planner call; ask_once invokes the planner whatever the text.
C7_ShortcutInRunOnce ==
    /\ (rq.mode = "run_once" /\ Planned(rq)
           /\ _deterministic_plan_from_ids(rq.user_query) # None)
          => /\ rq.plan = _deterministic_plan_from_ids(rq.user_query)
             /\ rq.planner_calls = 0
    /\ (rq.mode = "ask_once" /\ Planned(rq)) => (rq.planner_calls = 1 /\ ~rq.forced)

\* run_once answered a text with a ticket id from the forced plan
C7_Witness ==
    /\ rq.mode = "run_once"
    /\ rq.user_query = <<"Fetch", "INC001">>
    /\ rq.plan = CallToolPlan("mcp-servicenow", "get_ticket", "ticket_id", "INC001")
    /\ rq.planner_calls = 0
    /\ rq.pc = "done"

\* the texts of the end-to-end scenario and the plan each is to get
FetchPlans ==
    [q \in {<<"Fetch", "sp-001">>, <<"policy-001", "SP-001">>} |->
        Dict([type |-> Sym("call_tool"), server |-> Sym("mcp-sharepoint"),
              tool |-> Sym("fetch_sharepoint_doc"),
              args |-> Dict([doc_id |-> Sym(q[2])])])]

\* run_once is over for a text with a document id, the discovered catalog
\* lists fetch_sharepoint_doc, the allowlist permits it, and no summary is
\* requested or enabled
FetchScenario(r) ==
    /\ r.mode = "run_once"
    /\ Over(r)
    /\ r.user_query \in DOMAIN FetchPlans
    /\ ListAnswer(r, "mcp-sharepoint").kind = "result"
    /\ \E k \in 1..Len(ListAnswer(r, "mcp-sharepoint").result.v) :
          ListAnswer(r, "mcp-sharepoint").result.v[k] = ToolDescriptor("fetch_sharepoint_doc")
    /\ Configured # None => "fetch_sharepoint_doc" \in Configured.v["mcp-sharepoint"]
    /\ ~safe_summarize
    /\ ~_wants_summary(r.user_query)

\* C8 as stated: in the scenario the plan is the fetch plan, exactly one
\* tools/call is posted and the response has type tool_result.
C8_FetchReturnsToolResult ==
    FetchScenario(rq)
        => /\ rq.plan = FetchPlans[rq.user_query]
           /\ Cardinality(Calls(rq)) = 1
           /\ rq.pc = "done"
           /\ rq.output.type = "tool_result"

\* C8, amended: in the scenario the plan is the fetch plan and exactly one
\* tools/call is posted, with the plan's server, tool and args; when the wait
\* for its response returns, the response has type tool_result, and when it
\* raises (a timeout, a reader error) that exception leaves run_once.
C8_FetchCallsOnce ==
    FetchScenario(rq)
        => /\ rq.plan = FetchPlans[rq.user_query]
           /\ Cardinality(Calls(rq)) = 1
           /\ \A i \in Calls(rq) :
                 rq.rpcs[i] = Envelope("mcp-sharepoint", "tools/call", "fetch_sharepoint_doc",
                                       Dict([doc_id |-> Sym(rq.user_query[2])]))
           /\ rq.pc = "done" => rq.output.type = "tool_result"
           /\ rq.pc = "raised" => rq.exc \in {"TimeoutError", "MCPProtocolError"}

\* the scenario ran to a typed tool result
C8_Witness ==
    /\ FetchScenario(rq)
    /\ rq.user_query = <<"Fetch", "sp-001">>
    /\ rq.pc = "done"
    /\ rq.output.type = "tool_result"
    /\ rq.output.typed # None

-----------------------------------------------------------------------------
(* Properties of the session layer (SpecSession) *)

\* C9 as stated: a wait_for_id(id) that returns a message returns one whose
\* id is id and that answers the caller's own request.
C9_OwnResponse ==
    \A c \in 1..NumCallers :
        callers[c].pc = "returned"
            => /\ IntOf(Get(callers[c].got, "id")) = [ok |-> TRUE, n |-> callers[c].rid]
               /\ Get(callers[c].got, "result") = PyInt(callers[c].re)

\* C10 as stated: two requests posted through rpc() on one session carry
\* different ids.
C10_DistinctIds ==
    \A s \in ServerSet :
        \A i, j \in 1..Len(posted[s]) :
            (i # j /\ posted[s][i].id # None /\ posted[s][j].id # None)
                => posted[s][i].id # posted[s][j].id

\* C11 as stated: a list_tools / call_tool made on a session whose handshake
\* has not completed (connect not begun, in progress, or failed) fails with
\* MCPProtocolError and posts nothing.
C11_RpcNeedsReady ==
    [][\A c \in 1..NumCallers :
          (/\ callers[c].pc = "idle"
           /\ callers'[c].pc # "idle"
           /\ conn[callers'[c].sess].pc # "ready")
              => /\ callers'[c].pc = "failed"
                 /\ callers'[c].exc = "MCPProtocolError"
                 /\ posted' = posted]_vars

\* the initialized notifications among the envelopes posted on a session
Notifications(s) ==
    {i \in 1..Len(posted[s]) : posted[s][i].method = "notifications/initialized"}

\* initialize_handshake took a response to its initialize request that
\* carries a result and no error
InitializeSucceeded(s) ==
    /\ Len(posted[s]) >= 1
    /\ conn[s].init_resp = ResponseTo(posted[s][1], 1)

C13_ErrorFailsOnlyInFlight ==
    \A c \in 1..NumCallers :
        (callers[c].pc = "failed" /\ callers[c].exc = "MCPProtocolError" /\ callers[c].re # 0)
            => /\ errors[callers[c].sess] # <<>>
               /\ Len(errors[callers[c].sess]) > callers[c].errs

-----------------------------------------------------------------------------
(* Properties of the audit trail (Spec) *)

\* C15: when a request has ended, a configured audit sink holds exactly one
\* record of it, written under the identifier generated for the request, with
\* the request's events and its final output, and the response names that
\* identifier; without a sink, nothing is written and the response carries no
\* trace id
C15_OneAuditRecord ==
    rq.pc \in {"done", "raised"} =>
        IF rq.trace_dir # None
        THEN /\ Len(rq.audit) = 1
             /\ rq.audit[1].trace_id = rq.trace_id
             /\ rq.audit[1].events = rq.trace
             /\ rq.output = [rq.audit[1].final_output EXCEPT !.trace_id = rq.trace_id]
        ELSE /\ rq.audit = <<>>
             /\ rq.output.trace_id = ""

-----------------------------------------------------------------------------
(* Properties of concurrent requests (SpecConcurrent) *)

\* the server's answer to the tools/list envelope thread t posted on session s
OwnListAnswer(t, s) ==
    LET own == {i \in 1..Len(posted[s]) :
                   posted[s][i].by = t /\ posted[s][i].method = "tools/list"}
    IN  IF own = {} THEN NoMsg ELSE posted[s][CHOOSE i \in own : TRUE].answer

\* tools_all() as the responses to the thread's own tools/list requests give it
OwnPayload(t) ==
    [k \in 1..Len(rq[t].tools_payload) |->
        IF rq[t].tools_payload[k].kind = "inline_error" THEN InlineError
        ELSE OwnListAnswer(t, Servers[k])]

\* C14: of requests that run at the same time on one registry, each validates
\* and allowlist-checks its plan against the catalog and the effective
\* allowlist computed from the responses to its own tools/list requests
C14_OwnDiscovery ==
    \A t \in 1..NumCallers :
        (rq[t].pc # "discover_tools" /\ Len(rq[t].tools_payload) = Len(Servers)) =>
            LET ok_tools == [srv \in {x \in ServerSet : PayloadMap(OwnPayload(t))[x].kind = "result"}
                                |-> PayloadMap(OwnPayload(t))[srv]]
            IN  /\ rq[t].catalog_dict = build_tool_catalog(ok_tools)
                /\ rq[t].allowlist =
                      apply_configured_allowlist(build_allowlist_from_tools_payload(ok_tools),
                                                 load_allowlist_json(allowlist_file).allowlist)

-----------------------------------------------------------------------------
(* Properties of the gates (SpecGates) *)

\* the conditions on a call_tool plan: its server is a key of the catalog, its
\* tool is listed under it, args is an object that holds every required key,
\* only declared properties, and values of the declared types
PlanConforms(plan, tool_catalog) ==
    /\ Get(plan, "server").k = "str"
    /\ SymOf(Get(plan, "server")) \in DOMAIN tool_catalog
    /\ Get(plan, "args").k = "dict"
    /\ \E i \in 1..Len(tool_catalog[SymOf(Get(plan, "server"))]) :
          LET t == tool_catalog[SymOf(Get(plan, "server"))][i]
              args == Get(plan, "args").v
          IN  /\ Get(plan, "tool") = Sym(t.name)
              /\ \A j \in 1..Len(t.inputSchema.required) :
                    t.inputSchema.required[j] \in DOMAIN args
              /\ DOMAIN args \subseteq DOMAIN t.inputSchema.properties
              /\ \A a \in DOMAIN args :
                    t.inputSchema.properties[a] # "" =>
                        _type_ok(t.inputSchema.properties[a], args[a])

\* C16: validate_plan accepts a call_tool plan exactly when it conforms to the
\* catalog, and then returns its server, tool and args unchanged; a plan that
\* does not conform, or whose type is neither call_tool nor final_answer, is
\* rejected with a validation error
C16_ValidatePlan ==
    (rq.gate = "validate_plan" /\ Get(rq.plan, "type") # Sym("final_answer")) =>
        IF Get(rq.plan, "type") = Sym("call_tool") /\ PlanConforms(rq.plan, rq.tool_catalog)
        THEN rq.result = [status |-> "ok", server |-> SymOf(Get(rq.plan, "server")),
                          tool |-> SymOf(Get(rq.plan, "tool")),
                          args |-> Get(rq.plan, "args")]
        ELSE rq.result.status = "ValidationError"

\* C17: the effective allowlist has the discovered servers as its keys and, for
\* each, the discovered tools the operator lists for that server (none when
\* the operator does not list the server); it is the discovered allowlist
\* itself when no allowlist is configured
C17_EffectiveAllowlist ==
    rq.gate = "apply_configured_allowlist" =>
        IF rq.configured = None THEN rq.result = rq.discovered
        ELSE /\ DOMAIN rq.result = DOMAIN rq.discovered
             /\ \A server \in DOMAIN rq.discovered :
                   rq.result[server] =
                      {tool \in rq.discovered[server] :
                          /\ server \in DOMAIN rq.configured.v
                          /\ tool \in rq.configured.v[server]}

\* a configured allowlist that lists an undiscovered server, misses a
\* discovered one that has tools, and narrows another
C17_Witness ==
    /\ rq.gate = "apply_configured_allowlist"
    /\ rq.configured # None
    /\ DOMAIN rq.configured.v \ DOMAIN rq.discovered # {}
    /\ \E server \in DOMAIN rq.discovered \ DOMAIN rq.configured.v :
          rq.discovered[server] # {} /\ rq.result[server] = {}
    /\ \E server \in DOMAIN rq.discovered :
          rq.result[server] # {} /\ rq.result[server] # rq.discovered[server]

\* the plan passes validation as a call_tool plan and its tool is not in the
\* effective allowlist of its server
ValidNotAllowed(r) ==
    LET v == validate_plan(r.plan, r.catalog_dict)
    IN  /\ Get(r.plan, "type") = Sym("call_tool")
        /\ v.status = "ok"
        /\ ~(v.server \in DOMAIN r.allowlist /\ v.tool \in r.allowlist[v.server])

\* C18: enforce_tool_allowlist returns exactly when the server is a key of the
\* allowlist and the tool is in that server's set, and raises ToolNotAllowed
\* for an unknown server and for a tool outside the set alike; a validated
\* plan whose tool is discovered and not allowlisted ends blocked, and no
\* tools/call is posted
C18_ToolNotAllowed ==
    /\ rq.gate = "enforce_tool_allowlist" =>
          (rq.result <=> (rq.server \in DOMAIN rq.allowlist
                          /\ rq.tool \in rq.allowlist[rq.server]))
    /\ (rq.gate = "validate_and_select" /\ ValidNotAllowed(rq.before)) =>
          /\ rq.result.pc = "done"
          /\ rq.result.output.type = "blocked"
          /\ rq.result.output.reason = <<"Tool not allowed">>
          /\ Calls(rq.result) = {}

\* delete_sharepoint_doc is discovered and validated while the effective
\* allowlist of its server holds fetch_sharepoint_doc only: blocked
C18_Witness ==
    /\ rq.gate = "validate_and_select"
    /\ ValidNotAllowed(rq.before)
    /\ Get(rq.before.plan, "tool") = Sym("delete_sharepoint_doc")
    /\ rq.before.allowlist["mcp-sharepoint"] = {"fetch_sharepoint_doc"}
    /\ rq.result.output.type = "blocked"

\* the names a file's entry for a server lists
Listed(file, server) ==
    {SymOf(file.v[server].v[i]) : i \in 1..Len(file.v[server].v)}

\* C19: load_allowlist_json yields mode "discovered", no allowlist and a
\* warning exactly when the file is missing or is not a JSON object, and
\* otherwise mode "configured", the allowlist of the file and no warning; a
\* request records the mode and the warning in its allowlist event, and in
\* discovered mode its effective allowlist is the discovered one
C19_AllowlistMode ==
    /\ rq.gate = "load_allowlist_json" =>
          IF rq.file = None \/ rq.file.k # "dict"
          THEN /\ rq.result.mode = "discovered"
               /\ rq.result.allowlist = None
               /\ rq.result.warning # <<>>
          ELSE /\ rq.result.mode = "configured"
               /\ rq.result.allowlist # None
               /\ \A server \in DOMAIN rq.result.allowlist.v :
                     /\ server \in DOMAIN rq.file.v
                     /\ rq.result.allowlist.v[server] \subseteq Listed(rq.file, server)
               /\ rq.result.warning = <<>>
    /\ rq.gate = "validate_and_select" =>
          /\ rq.before.allowlist_event.mode = load_allowlist_json(allowlist_file).mode
          /\ rq.before.allowlist_event.warning = load_allowlist_json(allowlist_file).warning
          /\ rq.before.allowlist_event.mode = "discovered" <=>
                (allowlist_file = None \/ allowlist_file.k # "dict")
          /\ rq.before.allowlist_event.mode = "discovered" =>
                /\ rq.before.allowlist_event.warning # <<>>
                /\ rq.before.allowlist =
                      build_allowlist_from_tools_payload(rq.before.ok_tools)

\* a request under a file that is no JSON object: discovered mode, with a
\* warning, and the discovered tools are the allowed ones
C19_Witness ==
    /\ rq.gate = "validate_and_select"
    /\ allowlist_file \in {Unparseable, List(<<>>)}
    /\ rq.before.allowlist_event.mode = "discovered"
    /\ rq.before.allowlist_event.warning = <<"Allowlist file invalid">>
    /\ "mcp-sharepoint" \in DOMAIN rq.before.allowlist
    /\ "delete_sharepoint_doc" \in rq.before.allowlist["mcp-sharepoint"]
    /\ rq.result.pc = "call_tool"

\* the text is a JSON text and nothing else, and its first and last
\* characters that are not whitespace are the braces of an object
OnlyJsonObject(text) ==
    /\ Strip(text) # <<>>
    /\ Head(Strip(text)) = "{"
    /\ Strip(text)[Len(Strip(text))] = "}"
    /\ JsonLoads(Strip(text)).ok

\* C20: parse_strict_json_plan returns a dict as it is; it accepts a string
\* exactly when the trimmed text starts with "{", ends with "}" and parses as
\* JSON, and returns what it parses to; it rejects every other input with
\* PlanParseError; so whatever it returns is a JSON object
C20_StrictJsonPlan ==
    rq.gate = "parse_strict_json_plan" =>
        /\ rq.raw.k = "dict" => rq.result = [ok |-> TRUE, plan |-> rq.raw]
        /\ rq.raw.k = "str" =>
              /\ rq.result.ok <=> OnlyJsonObject(rq.raw.v)
              /\ rq.result.ok => rq.result.plan = JsonLoads(rq.raw.v).value
        /\ rq.raw.k \notin {"dict", "str"} => ~rq.result.ok
        /\ rq.result.ok => rq.result.plan.k = "dict"

\* a JSON object with whitespace around it is accepted and parsed
C20_Witness ==
    /\ rq.gate = "parse_strict_json_plan"
    /\ rq.raw.k = "str"
    /\ Strip(rq.raw.v) # rq.raw.v
    /\ rq.result.ok
    /\ rq.result.plan = Dict(JsonBodies.fetch_sp)

\* the order in which the sections of a summary are read
ScanOrder == <<"bullets", "risks", "recommendations">>

\* an item as the sentence describes it: an object whose claim and evidence
\* are strings that are not empty, the evidence a substring of the source
ItemNonEmpty(item, source_text) ==
    /\ item.k = "dict"
    /\ Get(item, "claim").k = "str" /\ Get(item, "claim").v # <<>>
    /\ Get(item, "evidence").k = "str" /\ Get(item, "evidence").v # <<>>
    /\ IsSubstring(Get(item, "evidence").v, source_text)

\* the same, with claim and evidence not empty once whitespace is trimmed
ItemNonBlank(item, source_text) ==
    /\ ItemNonEmpty(item, source_text)
    /\ Strip(Get(item, "claim").v) # <<>>
    /\ Strip(Get(item, "evidence").v) # <<>>

\* the places where a summary of type 'summary' does not conform, in scan
\* order: <<n, i>> is item i of section n, <<n, 0>> a section that is no list
NonConforming(summary, source_text, Conforms(_, _)) ==
    {<<n, 0>> : n \in {m \in 1..3 : Get(summary, ScanOrder[m]).k # "list"}}
    \cup UNION {{<<n, i>> : i \in {j \in 1..Len(Get(summary, ScanOrder[n]).v) :
                                     ~Conforms(Get(summary, ScanOrder[n]).v[j], source_text)}} :
                n \in {m \in 1..3 : Get(summary, ScanOrder[m]).k = "list"}}

Earlier(p, q) == p[1] < q[1] \/ (p[1] = q[1] /\ p[2] <= q[2])

\* a summary is accepted exactly when it is an object of type 'summary' that
\* conforms everywhere, and the error of any other such object names the
\* section and the index (from 0) of the first place that does not conform
GroundedAs(Conforms(_, _)) ==
    rq.gate = "validate_grounded_summary" =>
        LET typed == rq.summary.k = "dict" /\ Get(rq.summary, "type") = Sym("summary")
            bad == NonConforming(rq.summary, rq.source_text, Conforms)
            first == CHOOSE p \in bad : \A q \in bad : Earlier(p, q)
        IN  /\ rq.result.what = "" <=> typed /\ bad = {}
            /\ typed /\ bad # {} =>
                  /\ rq.result.section = ScanOrder[first[1]]
                  /\ rq.result.index = first[2] - 1

\* C21 as stated: validate_grounded_summary accepts exactly the objects of
\* type 'summary' whose three sections are lists of objects with a non-empty
\* string claim and a non-empty string evidence that is a substring of the
\* source, and fails at the first other item, scanning bullets, risks,
\* recommendations, with an error naming its section and index
C21_GroundedLiteral == GroundedAs(ItemNonEmpty)

\* C21 amended: the same, where a claim or an evidence that holds only
\* whitespace counts as empty, so that such an item does not conform even
\* when its evidence occurs in the source
C21_GroundedSummary == GroundedAs(ItemNonBlank)

\* a summary with a whitespace-only claim as second bullet and an ungrounded
\* risk: rejected for bullets[1], the first of the two
C21_Witness ==
    /\ rq.gate = "validate_grounded_summary"
    /\ rq.summary.k = "dict"
    /\ Get(rq.summary, "bullets").k = "list"
    /\ Len(Get(rq.summary, "bullets").v) = 2
    /\ ItemNonBlank(Get(rq.summary, "bullets").v[1], rq.source_text)
    /\ Get(rq.summary, "bullets").v[2] =
          Dict([claim |-> Str(<<" ">>), evidence |-> Str(<<"a">>)])
    /\ Get(rq.summary, "risks") =
          List(<<Dict([claim |-> Str(<<"c">>), evidence |-> Str(<<"z">>)])>>)
    /\ rq.source_text = <<"a", " ", "b">>
    /\ rq.result = Grounding("bullets", 1, "claim must be a non-empty string")

\* the (server, tool) pairs with a registered output schema
Registered ==
    {<<"mcp-sharepoint", "search_sharepoint">>, <<"mcp-sharepoint", "fetch_sharepoint_doc">>,
     <<"mcp-servicenow", "search_servicenow_tickets">>, <<"mcp-servicenow", "get_ticket">>,
     <<"mcp-policy-kb", "search_policy_kb">>, <<"mcp-policy-kb", "fetch_policy_entry">>}

\* the fields the schema of a registered tool requires, all declared str
RequiredFields(tool) ==
    CASE tool \in {"search_sharepoint", "search_servicenow_tickets", "search_policy_kb"} ->
            {"query"}
      [] tool = "fetch_sharepoint_doc" -> {"doc_id", "content"}
      [] tool = "get_ticket" -> {"ticket_id", "content"}
      [] OTHER -> {"policy_id", "content"}

\* the response carries a structured payload: no error member, a result
\* object whose isError is not true and whose structuredContent is an object
Structured(resp) ==
    /\ resp.kind # "error"
    /\ resp.result.k = "dict"
    /\ Get(resp.result, "isError") # Bool(TRUE)
    /\ Get(resp.result, "structuredContent").k = "obj"

HasRequired(tool, sc) ==
    \A f \in RequiredFields(tool) : ObjHas(sc, f) /\ ObjGet(sc, f).k = "str"

\* C22: parse_typed_tool_output succeeds only if (server, tool) has a
\* registered output schema, the response has no error member, its result is
\* an object whose isError is not true and whose structuredContent is an
\* object, and that object has every required field with the declared type;
\* a conforming payload that carries nothing but its required fields is
\* parsed, and what is parsed holds these fields unchanged
C22_TypedOnlyConforming ==
    rq.gate = "parse_typed_tool_output" =>
        LET sc == Get(rq.resp.result, "structuredContent")
            conforming == /\ <<rq.server, rq.tool>> \in Registered
                          /\ Structured(rq.resp)
                          /\ HasRequired(rq.tool, sc)
        IN  /\ rq.result.ok => conforming
            /\ rq.result.ok =>
                  \A f \in RequiredFields(rq.tool) :
                      ObjGet(rq.result.typed, f) = ObjGet(sc, f)
            /\ conforming /\ ~ObjHas(sc, "results") => rq.result.ok

\* a fetched policy entry is parsed, and a response whose content is no
\* string is not
C22_Witness ==
    /\ rq.gate = "parse_typed_tool_output"
    /\ rq.server = "mcp-policy-kb"
    /\ rq.tool = "fetch_policy_entry"
    /\ rq.result.ok
    /\ ObjGet(rq.result.typed, "content") = Str(<<"a", "b">>)
    /\ ~parse_typed_tool_output(rq.server, rq.tool,
            CallResult(Obj(<<Member("policy_id", Sym("policy-001")),
                             Member("content", PyInt(0))>>), FALSE)).ok

-----------------------------------------------------------------------------
(* Properties of the steps after the tool call (Spec) *)

\* the request has the tool's response and the typed parser rejects it
TypedParseFails(r) ==
    /\ r.raw_tool_result # NoMsg
    /\ ~parse_typed_tool_output(r.server, r.tool, r.raw_tool_result).ok

\* the response of a request that degrades: the raw result with a note
Degraded(r) ==
    /\ r.output.type = "tool_result"
    /\ r.output.raw = r.raw_tool_result
    /\ r.output.note # <<>>
    /\ r.output.summary = None

SummarizerInvoked ==
    rq.pc = "grounded_summarize" /\ rq'.summarizer_calls = rq.summarizer_calls + 1

\* the text of the request asks for a summary
SummaryRequested(r) == \E i \in 1..Len(r.user_query) : Lower(r.user_query[i]) = "summarize"

\* C24: the summarizer model is invoked only if the tool result was
\* typed-parsed and summarization is requested in the text or enabled by
\* configuration; never when the content of the typed payload is NOT_FOUND,
\* and for a search tool only when the text requests it
C24_SummarizerOnlyWhenDue ==
    [][SummarizerInvoked =>
          /\ parse_typed_tool_output(rq.server, rq.tool, rq.raw_tool_result).ok
          /\ rq.typed = parse_typed_tool_output(rq.server, rq.tool, rq.raw_tool_result).typed
          /\ SummaryRequested(rq) \/ safe_summarize
          /\ ~(ObjHas(rq.typed, "content") /\ ObjGet(rq.typed, "content") = Sym("NOT_FOUND"))
          /\ IsSearchTool(rq.tool) => SummaryRequested(rq)]_vars

-----------------------------------------------------------------------------
(* Properties of discovery (Spec) *)

\* C25: tools_all() returns one entry per registered session, in
\* registration order: each list_tools call adds the entry of its session and
\* leaves the earlier entries alone; the entry is the session's own response,
\* or an inline error when the call raised; no call makes tools_all raise,
\* and it returns once every session has its entry
C25_ToolsAllTotal ==
    [][rq.pc = "discover_tools" =>
          LET n == Len(rq.tools_payload)
          IN  /\ rq'.pc # "raised"
              /\ Len(rq'.tools_payload) = n + 1
              /\ SubSeq(rq'.tools_payload, 1, n) = rq.tools_payload
              /\ rq'.tools_payload[n + 1] \in ToolsListAnswers(Servers[n + 1]) \cup {InlineError}
              /\ rq'.rpcs = Append(rq.rpcs, Envelope(Servers[n + 1], "tools/list", "", EmptyDict))
              /\ rq'.pc = "discover_tools" <=> n + 1 < Len(Servers)
              /\ rq'.pc # "discover_tools" =>
                    DOMAIN PayloadMap(rq'.tools_payload) = ServerSet]_vars

\* the first session's discovery raised, the second one's entry is its own
\* tools list, and the request goes on to the planner
C25_Witness ==
    /\ rq.pc = "plan"
    /\ rq.tools_payload = <<InlineError, ToolsListResult(<<"fetch_policy_entry">>)>>
    /\ DOMAIN rq.ok_tools = {"mcp-policy-kb"}

-----------------------------------------------------------------------------
(* Properties of connect_all (SpecSession) *)

\* connect() has not been called on the session: no reader, no stream, no
\* message URL, nothing posted
Untouched(s) ==
    /\ conn[s].pc = "new"
    /\ reader[s] = "none"
    /\ stream[s] = {}
    /\ messages_url[s] = None
    /\ posted[s] = <<>>

\* C26: connect_all connects the sessions one at a time in registration
\* order: a session's connect() has begun only when every session before it
\* is ready, so that after a failing session no later session gets a reader
\* or a handshake; and each connect() is attempted at most once: a session
\* that has left its initial state never returns to it, a failed session
\* stays failed, and at most one initialize request is posted on a session
C26_ConnectAllInOrder ==
    [][\A s \in ServerSet :
          /\ conn'[s].pc # "new" =>
                \A t \in ServerSet : ServerIndex(t) < ServerIndex(s) => conn'[t].pc = "ready"
          /\ conn'[s].pc = "new" => Untouched(s)'
          /\ conn[s].pc # "new" => conn'[s].pc # "new"
          /\ conn[s].pc = "failed" => conn'[s].pc = "failed"
          /\ Cardinality({i \in 1..Len(posted'[s]) :
                            posted'[s][i].method = "initialize"}) <= 1]_vars

\* the first session's connect() has failed after its reader was started:
\* the second session is as it was constructed, while callers already ask
C26_Witness ==
    /\ conn[Servers[1]].pc = "failed"
    /\ reader[Servers[1]] # "none"
    /\ Untouched(Servers[2])
    /\ \E c \in 1..NumCallers : callers[c].pc # "idle"

-----------------------------------------------------------------------------
(* Properties of gate rejections (Spec) *)

\* the step that is about to be taken is a gate rejection: the policy gate
\* blocks the text, the planner's reply fails the strict JSON gate, the plan
\* is not accepted by validate_plan, or its tool is not in the allowlist
GateRejects ==
    \/ rq.pc = "policy_gate" /\ ~policy_check_user_query(rq.user_query).allowed
    \/ /\ rq.pc = "plan"
       /\ ~UsesShortcut(rq)
       /\ \E o \in PlannerOutcomes :
             o.exc = "" /\ ~parse_strict_json_plan(o.value).ok /\ rq' = Plan(rq, o)
    \/ rq.pc = "validate_and_select" /\ validate_plan(rq.plan, rq.catalog_dict).status # "ok"
    \/ /\ rq.pc = "validate_and_select"
       /\ validate_plan(rq.plan, rq.catalog_dict).status = "ok"
       /\ Get(rq.plan, "type") = Sym("call_tool")
       /\ ~enforce_tool_allowlist(validate_plan(rq.plan, rq.catalog_dict).server,
                                  validate_plan(rq.plan, rq.catalog_dict).tool, rq.allowlist)

\* C27: a gate rejection ends the request with a response of type blocked
\* that carries a reason, and never with an exception; it sends nothing to a
\* session or a model and leaves each session's message URL, reader and
\* error list as they were; and the request after an ended one starts at the
\* policy gate with nothing kept from the one before
C27_RejectionReturnsBlocked ==
    [][/\ GateRejects =>
             /\ rq'.pc = "done"
             /\ rq'.output.type = "blocked"
             /\ rq'.output.reason # <<>>
             /\ rq'.blocked
             /\ rq'.rpcs = rq.rpcs
             /\ rq'.summarizer_calls = rq.summarizer_calls
             /\ UNCHANGED <<messages_url, reader, errors>>
       /\ (rq.pc \in {"done", "raised"} /\ rq' # rq) =>
             /\ rq'.pc = "policy_gate"
             /\ \E mode \in {"ask_once", "run_once"}, q \in Queries :
                   [rq' EXCEPT !.trace_dir = None, !.trace_id = ""] = NewRequest(mode, q)]_vars

\* the patterns of which a phrase occurs, word by word, in the text
Matching(text) ==
    {i \in 1..Len(_UNSAFE_PATTERNS) :
        \E phrase \in _UNSAFE_PATTERNS[i] :
            \E k \in 0..(Len(text) - Len(phrase)) :
                \A j \in 1..Len(phrase) : text[k + j] = phrase[j]}

\* C28: policy_check_user_query blocks a text, with a reason naming the first
\* pattern of the list that matches, exactly when a disallowed pattern
\* matches it, and allows it with an empty reason otherwise; texts that
\* differ only in letter case get the same verdict: 'How do I hack a
\* website?' is blocked, 'Find the PII logging policy' is allowed
C28_PolicyVerdict ==
    rq.gate = "policy_check_user_query" =>
        LET matching == Matching(LowerText(rq.q))
        IN  /\ matching = {} => rq.result = [allowed |-> TRUE, reason |-> 0]
            /\ matching # {} =>
                  /\ ~rq.result.allowed
                  /\ rq.result.reason \in matching
                  /\ \A i \in matching : rq.result.reason <= i
            /\ \A q \in GateQueries :
                  LowerText(q) = LowerText(rq.q) => policy_check_user_query(q) = rq.result
            /\ rq.q = <<"How", "do", "I", "hack", "a", "website?">> =>
                  rq.result = [allowed |-> FALSE, reason |-> 1]
            /\ rq.q = <<"Find", "the", "PII", "logging", "policy">> => rq.result.allowed

\* a text in capitals that matches the second and the first pattern is
\* blocked for the first
C28_Witness ==
    /\ rq.gate = "policy_check_user_query"
    /\ rq.q = <<"detonator", "HACK">>
    /\ rq.result = [allowed |-> FALSE, reason |-> 1]

-----------------------------------------------------------------------------
(* Properties of wait_for_id (SpecSession) *)

\* C29: the step in which wait_for_id returns hands the caller the message
\* stored under its id and removes that entry from the inbox, leaving the
\* other entries alone; no other caller's wait ends in that step, and no
\* caller that has returned on the session holds that message: a stored
\* response goes to at most one waiter
C29_PopOnReturn ==
    [][\A c \in 1..NumCallers :
          (callers[c].pc = "waiting" /\ callers'[c].pc = "returned") =>
              LET s == callers[c].sess
                  rid == callers[c].rid
              IN  /\ rid \in DOMAIN inbox[s]
                  /\ callers'[c].got = inbox[s][rid]
                  /\ inbox'[s] = [x \in DOMAIN inbox[s] \ {rid} |-> inbox[s][x]]
                  /\ \A d \in 1..NumCallers \ {c} :
                        /\ callers'[d] = callers[d]
                        /\ ~(/\ callers[d].pc = "returned"
                             /\ callers[d].sess = s
                             /\ callers[d].got = callers'[c].got)]_vars

\* two callers wait on one session under the same id; one has returned with
\* the stored response, which is gone from the inbox, and the other waits on
C29_Witness ==
    \E c, d \in 1..NumCallers :
        /\ callers[c].pc = "returned"
        /\ callers[d].pc = "waiting"
        /\ callers[c].sess = callers[d].sess
        /\ callers[c].rid = callers[d].rid
        /\ callers[c].rid \notin DOMAIN inbox[callers[c].sess]

\* the ways a wait can end in a step: with the message stored under its id
\* or, the message absent and an error recorded, with a protocol error, both
\* before the deadline; with a timeout error once the deadline has passed
Returns(c) ==
    /\ callers'[c].pc = "returned"
    /\ ~callers[c].expired
    /\ callers[c].rid \in DOMAIN inbox[callers[c].sess]
    /\ callers'[c].got = inbox[callers[c].sess][callers[c].rid]

FailsOnError(c) ==
    /\ callers'[c].pc = "failed"
    /\ callers'[c].exc = "MCPProtocolError"
    /\ ~callers[c].expired
    /\ callers[c].rid \notin DOMAIN inbox[callers[c].sess]
    /\ errors[callers[c].sess] # <<>>

TimesOut(c) ==
    /\ callers'[c].pc = "failed"
    /\ callers'[c].exc = "TimeoutError"
    /\ callers[c].expired

\* every step that ends a wait ends it in one of the three ways
EndsThreeWays ==
    \A c \in 1..NumCallers :
        (callers[c].pc = "waiting" /\ callers'[c].pc # "waiting") =>
            Returns(c) \/ FailsOnError(c) \/ TimesOut(c)

\* C30 as stated: every wait ends in one of the three ways, and a transport
\* error recorded while the response is absent ends the wait before the
\* deadline: no wait runs into its timeout with an error recorded on its
\* session and its response absent
C30_ErrorEndsBeforeDeadline ==
    [][/\ EndsThreeWays
       /\ \A c \in 1..NumCallers :
             TimesOut(c) =>
                 \/ errors[callers[c].sess] = <<>>
                 \/ callers[c].rid \in DOMAIN inbox[callers[c].sess]]_vars

\* C30 amended: every wait ends in exactly one of the three ways; a wait
\* whose deadline has passed ends, and a wait on a session with a recorded
\* error ends without the deadline having to pass: at the caller's next pass,
\* or in the timeout error when the deadline passes before that pass
C30_WaitEnds ==
    /\ [][EndsThreeWays]_vars
    /\ \A c \in 1..NumCallers :
          (callers[c].pc = "waiting" /\ callers[c].expired) ~> (callers[c].pc # "waiting")
    /\ \A c \in 1..NumCallers :
          (/\ callers[c].pc = "waiting"
           /\ ~callers[c].expired
           /\ errors[callers[c].sess] # <<>>)
             ~> (callers[c].pc # "waiting" \/ callers[c].expired)

\* a wait has ended before its deadline in a protocol error, on an error the
\* reader recorded after the wait began, while another wait on the session
\* has reached its deadline
C30_Witness ==
    \E c, d \in 1..NumCallers :
        /\ callers[c].pc = "failed"
        /\ callers[c].exc = "MCPProtocolError"
        /\ ~callers[c].expired
        /\ Len(errors[callers[c].sess]) > callers[c].errs
        /\ callers[d].pc = "failed"
        /\ callers[d].exc = "TimeoutError"
        /\ callers[d].sess = callers[c].sess


-----------------------------------------------------------------------------
(* SpecReader: SSEReader.run line by line, on the stream of one session.  rq  *)
(* is here the reader thread: wire the lines the server sends, read the       *)
(* number of them the loop has processed, event_type and data_lines the       *)
(* loop's locals, dispatched the records handed to on_event.  A line is the   *)
(* sequence of its pieces; iter_lines yields it without its line end          *)

\* the blocks of lines a stream of the model is made of
MaxBlocks == 3

LBlank == <<>>
LComment == <<":", "ping">>
LEventEndpoint == <<"event", ":", " ", "endpoint">>
LEventPadded == <<"event", ":", " ", " ", "message", " ">>
LEventPing == <<"event", ":", "ping">>
LDataPath == <<"data", ":", " ", "/messages/">>
LDataOther == <<"data", ":", " ", "/other/">>
LDataResp == <<"data", ":", " ", "{", "resp0", "}">>
LDataPadded == <<"data", ":", " ", " ", "a", " ">>
LDataNoId == <<"data", ":", "{", "noid", "}">>
LDataBadId == <<"data", ":", " ", "{", "badid", "}">>
LDataNumber == <<"data", ":", " ", "123">>
LOther == <<"id", ":", " ", "1">>

WireBlocks ==
    { <<LEventEndpoint, LDataPath, LBlank>>,
      <<LEventEndpoint, LDataOther, LBlank>>,
      <<LEventPing, LDataPath, LBlank>>,
      <<LDataResp, LBlank>>,
      <<LDataNoId, LBlank>>,
      <<LDataBadId, LBlank>>,
      <<LDataNumber, LBlank>>,
      <<LEventPadded, LDataResp>>,
      <<LEventEndpoint>>,
      <<LDataPadded>>,
      <<LComment>>,
      <<LOther>>,
      <<LBlank>> }

RECURSIVE Wires(_)
Wires(n) ==
    IF n = 0 THEN {<<>>}
    ELSE Wires(n - 1) \cup {w \o b : w \in Wires(n - 1), b \in WireBlocks}

\* line.startswith(prefix + ":")
StartsWithField(line, prefix) == Len(line) >= 2 /\ line[1] = prefix /\ line[2] = ":"

\* line.split(":", 1)[1]: what follows the first colon
AfterColon(line) ==
    LET i == CHOOSE j \in 1..Len(line) :
                 line[j] = ":" /\ \A k \in 1..(j - 1) : line[k] # ":"
    IN  SubSeq(line, i + 1, Len(line))

\* "\n".join(data_lines)
RECURSIVE JoinLines(_)
JoinLines(lines) ==
    IF lines = <<>> THEN <<>>
    ELSE IF Len(lines) = 1 THEN lines[1]
    ELSE lines[1] \o <<"\n">> \o JoinLines(Tail(lines))

MCPEvent(event, data) == [event |-> event, data |-> data]

\* a variant of the loop body that keeps the event type across blank lines
ProcessLineKeepingType(st, line) ==
    IF line = <<>>
    THEN [event_type |-> st.event_type, data_lines |-> <<>>,
          out |-> IF st.data_lines # <<>>
                  THEN <<MCPEvent(st.event_type, JoinLines(st.data_lines))>>
                  ELSE <<>>]
    ELSE IF Head(line) = ":" THEN [st EXCEPT !.out = <<>>]
    ELSE IF StartsWithField(line, "event")
    THEN [st EXCEPT !.event_type = Strip(AfterColon(line)), !.out = <<>>]
    ELSE IF StartsWithField(line, "data")
    THEN [st EXCEPT !.data_lines = Append(@, LStrip(AfterColon(line))), !.out = <<>>]
    ELSE [st EXCEPT !.out = <<>>]

\* the body of run()'s loop for one line, the stop flag not set: the locals
\* afterwards and, in out, the record it hands to on_event, if any
ProcessLine(st, line) ==
    IF line = <<>>
    THEN [event_type |-> <<"message">>, data_lines |-> <<>>,
          out |-> IF st.data_lines # <<>>
                  THEN <<MCPEvent(st.event_type, JoinLines(st.data_lines))>>
                  ELSE <<>>]
    ELSE IF Head(line) = ":" THEN [st EXCEPT !.out = <<>>]
    ELSE IF StartsWithField(line, "event")
    THEN [st EXCEPT !.event_type = Strip(AfterColon(line)), !.out = <<>>]
    ELSE IF StartsWithField(line, "data")
    THEN [st EXCEPT !.data_lines = Append(@, LStrip(AfterColon(line))), !.out = <<>>]
    ELSE [st EXCEPT !.out = <<>>]

\* the session whose stream the reader reads, and its stream URL
ReaderSession == Servers[1]
sse_url(s) == <<s, "/sse">>

\* scheme://netloc of a URL
_origin(url) == <<url[1]>>

\* base.rstrip("/") + path, a "/" put before a path that does not start with one
_join_url(base, path) ==
    IF path # <<>> /\ Head(path) \in {"/", "/messages/", "/other/"}
    THEN Str(base \o path)
    ELSE Str(base \o <<"/">> \o path)

\* a variant of on_event that records a message it cannot use as an error
on_event_strict(sess, ev) ==
    IF ev.event = <<"__error__">>
    THEN [sess EXCEPT !.errors = Append(@, "transport")]
    ELSE IF ev.event = <<"endpoint">>
    THEN [sess EXCEPT !.messages_url = _join_url(_origin(sse_url(ReaderSession)),
                                                 Strip(ev.data))]
    ELSE IF ev.event = <<"message">>
    THEN LET j == JsonLoads(ev.data)
             box == OnMessage(sess.inbox, [event |-> "message", json |-> j.ok,
                                           data |-> j.value])
         IN  IF box = sess.inbox
             THEN [sess EXCEPT !.errors = Append(@, "malformed")]
             ELSE [sess EXCEPT !.inbox = box]
    ELSE sess

\* connect()'s on_event: sess is the session's message URL, inbox and error
\* list; the record afterwards
on_event(sess, ev) ==
    IF ev.event = <<"__error__">>
    THEN [sess EXCEPT !.errors = Append(@, "transport")]
    ELSE IF ev.event = <<"endpoint">>
    THEN [sess EXCEPT !.messages_url = _join_url(_origin(sse_url(ReaderSession)),
                                                 Strip(ev.data))]
    ELSE IF ev.event = <<"message">>
    THEN LET j == JsonLoads(ev.data)
         IN  [sess EXCEPT !.inbox = OnMessage(@, [event |-> "message", json |-> j.ok,
                                                 data |-> j.value])]
    ELSE sess

SessionOf(s) ==
    [messages_url |-> messages_url[s], inbox |-> inbox[s], errors |-> errors[s]]

\* the session variables after on_event has been given the records of out
Deliver(out) ==
    LET s == ReaderSession
        after == IF out = <<>> THEN SessionOf(s) ELSE on_event(SessionOf(s), out[1])
    IN  /\ messages_url' = [messages_url EXCEPT ![s] = after.messages_url]
        /\ inbox' = [inbox EXCEPT ![s] = after.inbox]
        /\ errors' = [errors EXCEPT ![s] = after.errors]

\* dispatched records carry the number of lines read when they were handed over
Dispatched(out, at) == [i \in 1..Len(out) |-> [event |-> out[i].event, data |-> out[i].data, at |-> at]]

NewReader(wire) ==
    [wire |-> wire, read |-> 0, event_type |-> <<"message">>, data_lines |-> <<>>,
     dispatched |-> <<>>, stop |-> FALSE, stop_at |-> 0, pc |-> "start", end |-> ""]

InitReader ==
    /\ rq \in {NewReader(w) : w \in Wires(MaxBlocks)}
    /\ allowlist_file = None
    /\ safe_summarize = FALSE
    /\ SessionInit

ReaderFrame == <<allowlist_file, safe_summarize, clock, stream, posted, conn, callers>>

\* run(): the GET of the stream has returned a success status
ReaderOpen ==
    /\ rq.pc = "start"
    /\ rq' = [rq EXCEPT !.pc = "reading"]
    /\ reader' = [reader EXCEPT ![ReaderSession] = "running"]
    /\ UNCHANGED <<messages_url, inbox, errors>>
    /\ UNCHANGED ReaderFrame

\* iter_lines yields the next line: the loop returns if the stop flag is set,
\* and handles the line otherwise
ReaderLine ==
    /\ rq.pc = "reading"
    /\ rq.read < Len(rq.wire)
    /\ IF rq.stop
       THEN /\ rq' = [rq EXCEPT !.pc = "ended", !.end = "stopped"]
            /\ reader' = [reader EXCEPT ![ReaderSession] = "ended"]
            /\ UNCHANGED <<messages_url, inbox, errors>>
       ELSE LET st == ProcessLine([event_type |-> rq.event_type,
                                   data_lines |-> rq.data_lines, out |-> <<>>],
                                  rq.wire[rq.read + 1])
            IN  /\ rq' = [rq EXCEPT !.read = @ + 1,
                                    !.event_type = st.event_type,
                                    !.data_lines = st.data_lines,
                                    !.dispatched = @ \o Dispatched(st.out, rq.read + 1)]
                /\ Deliver(st.out)
                /\ UNCHANGED reader
    /\ UNCHANGED ReaderFrame

\* the server ends the stream after its last line: the loop is over, run() returns
ReaderEof ==
    /\ rq.pc = "reading"
    /\ rq.read = Len(rq.wire)
    /\ rq' = [rq EXCEPT !.pc = "ended", !.end = "eof"]
    /\ reader' = [reader EXCEPT ![ReaderSession] = "ended"]
    /\ UNCHANGED <<messages_url, inbox, errors>>
    /\ UNCHANGED ReaderFrame

\* a variant of the except clause after which the loop goes on
ReaderRaiseResuming ==
    /\ rq.pc \in {"start", "reading"}
    /\ rq' = [rq EXCEPT !.pc = "reading",
                        !.dispatched = @ \o Dispatched(<<MCPEvent(<<"__error__">>, <<>>)>>,
                                                       rq.read)]
    /\ Deliver(<<MCPEvent(<<"__error__">>, <<>>)>>)
    /\ reader' = [reader EXCEPT ![ReaderSession] = "running"]
    /\ UNCHANGED ReaderFrame

\* the GET raises (connection error, raise_for_status) or a read of the stream
\* does: the except clause hands on_event the "__error__" record, run() returns
ReaderRaise ==
    /\ rq.pc \in {"start", "reading"}
    /\ rq' = [rq EXCEPT !.pc = "ended", !.end = "failed",
                        !.dispatched = @ \o Dispatched(<<MCPEvent(<<"__error__">>, <<>>)>>,
                                                       rq.read)]
    /\ Deliver(<<MCPEvent(<<"__error__">>, <<>>)>>)
    /\ reader' = [reader EXCEPT ![ReaderSession] = "ended"]
    /\ UNCHANGED ReaderFrame

\* stop(), from the thread that closes the session: the flag is set, and
\* Session.close() closes the pooled connections
ReaderStop ==
    /\ ~rq.stop
    /\ rq.pc # "ended"
    /\ rq' = [rq EXCEPT !.stop = TRUE, !.stop_at = rq.read]
    /\ UNCHANGED <<messages_url, inbox, errors, reader>>
    /\ UNCHANGED ReaderFrame

NextReader ==
    \/ ReaderOpen
    \/ ReaderLine
    \/ ReaderEof
    \/ ReaderRaise
    \/ ReaderStop

SpecReader == InitReader /\ [][NextReader]_vars

\* the reader thread runs while it has something to do: it opens the stream
\* and takes every line the server has sent.  Nothing is assumed of the
\* server: it may stay silent with the stream open, and a read that waits for
\* it is not ended by Session.close(), which closes pooled connections only
SpecReaderFair ==
    /\ InitReader
    /\ [][NextReader]_vars
    /\ WF_vars(ReaderOpen)
    /\ WF_vars(ReaderLine)


-----------------------------------------------------------------------------
(* C31: what the reader dispatches, read off the lines of the stream *)

IsDataLine(line) == StartsWithField(line, "data")
IsEventLine(line) == StartsWithField(line, "event")

SetMax(S) == CHOOSE x \in S : \A y \in S : y <= x

\* the last blank line before line i, 0 if there is none
PrevBlank(lines, i) == SetMax({j \in 1..(i - 1) : lines[j] = <<>>} \cup {0})

\* the data lines between the blank line before line i and line i
DataBefore(lines, i) == SelectSeq(SubSeq(lines, PrevBlank(lines, i) + 1, i - 1), IsDataLine)

\* the blank lines among the first n that follow at least one data line
Flushing(lines, n) == {i \in 1..n : lines[i] = <<>> /\ DataBefore(lines, i) # <<>>}

JoinedData(lines, i) ==
    JoinLines([k \in 1..Len(DataBefore(lines, i)) |->
                  LStrip(AfterColon(DataBefore(lines, i)[k]))])

\* the type of the last event: line among lines lo..hi, "message" if none
TypeWithin(lines, lo, hi) ==
    LET E == {j \in lo..hi : IsEventLine(lines[j])}
    IN  IF E = {} THEN <<"message">> ELSE Strip(AfterColon(lines[SetMax(E)]))

TypeSeen(lines, i) == TypeWithin(lines, 1, i)
TypeSinceBlank(lines, i) == TypeWithin(lines, PrevBlank(lines, i) + 1, i)

\* the records of the stream among those handed to on_event
StreamRecords == SelectSeq(rq.dispatched, LAMBDA d : d.event # <<"__error__">>)

\* one record per flushing blank line, in the order of the lines, with the
\* joined data and the type Type gives
DispatchesBy(Type(_, _)) ==
    LET F == Flushing(rq.wire, rq.read)
    IN  /\ Len(StreamRecords) = Cardinality(F)
        /\ \A k \in 1..Len(StreamRecords) :
              /\ StreamRecords[k].at \in F
              /\ Cardinality({i \in F : i <= StreamRecords[k].at}) = k
              /\ StreamRecords[k].data = JoinedData(rq.wire, StreamRecords[k].at)
              /\ StreamRecords[k].event = Type(rq.wire, StreamRecords[k].at)

\* C31 as stated: the reader dispatches one record per blank line that follows
\* at least one data line, its data the accumulated data lines joined by
\* newline, its type that of the most recent event: line seen on the stream
C31_TypeOfLastEventSeen == "wire" \in DOMAIN rq => DispatchesBy(TypeSeen)

\* C31: the reader dispatches one record per blank line that follows at least
\* one data line, its data the data lines since the blank line before joined
\* by newline, its type that of the last event: line since that blank line and
\* "message" if there is none; other blank lines dispatch nothing, and lines
\* starting with ":" and lines of other fields change nothing
C31_DispatchPerBlankLine == "wire" \in DOMAIN rq => DispatchesBy(TypeSinceBlank)

\* a record has been dispatched after an event: line of an earlier event of
\* the stream, and a blank line has dispatched nothing
C31_Witness ==
    /\ "wire" \in DOMAIN rq
    /\ \E i \in Flushing(rq.wire, rq.read) :
          TypeSeen(rq.wire, i) # TypeSinceBlank(rq.wire, i)
    /\ \E i \in 1..rq.read : rq.wire[i] = <<>> /\ i \notin Flushing(rq.wire, rq.read)


-----------------------------------------------------------------------------
(* C32: the value of a field *)

\* what follows the first colon, less one space after it if there is one
LessOneSpace(line) ==
    LET v == AfterColon(line)
    IN  IF v # <<>> /\ Head(v) = " " THEN Tail(v) ELSE v

\* C32: the value handed on for an event: or data: line is the line with the
\* prefix up to the first colon removed and then exactly one following space
\* removed if present, further leading and trailing whitespace preserved
C32_OneSpaceRemoved ==
    ("wire" \in DOMAIN rq /\ rq.read > 0) =>
        LET line == rq.wire[rq.read]
        IN  /\ IsEventLine(line) => rq.event_type = LessOneSpace(line)
            /\ IsDataLine(line) =>
                  /\ rq.data_lines # <<>>
                  /\ rq.data_lines[Len(rq.data_lines)] = LessOneSpace(line)


-----------------------------------------------------------------------------
(* C33: a failure of the stream request *)

ErrorRecords == {k \in 1..Len(rq.dispatched) : rq.dispatched[k].event = <<"__error__">>}

\* C33: when the stream request fails, at the GET or at a read, the reader
\* delivers exactly one error record, which the session appends to its error
\* list, and ends; no endpoint or message record is delivered after it
C33_FailureEndsWithOneError ==
    "wire" \in DOMAIN rq =>
        /\ rq.end = "failed" <=> ErrorRecords # {}
        /\ ErrorRecords # {} =>
              /\ ErrorRecords = {Len(rq.dispatched)}
              /\ errors[ReaderSession] = <<"transport">>
              /\ rq.pc = "ended"
              /\ reader[ReaderSession] = "ended"
        /\ ErrorRecords = {} => errors[ReaderSession] = <<>>

\* a read has failed after the reader had delivered an endpoint and a message
C33_Witness ==
    /\ "wire" \in DOMAIN rq
    /\ rq.end = "failed"
    /\ \E k \in 1..Len(rq.dispatched) : rq.dispatched[k].event = <<"endpoint">>
    /\ \E k \in 1..Len(rq.dispatched) : rq.dispatched[k].event = <<"message">>


-----------------------------------------------------------------------------
(* C34: message events the session cannot use *)

\* a message record whose data json.loads rejects, or is no object with an
\* id, or has an id that int() rejects
MalformedMessage(d) ==
    /\ d.event = <<"message">>
    /\ LET j == JsonLoads(d.data)
       IN  \/ ~j.ok
           \/ j.value.k # "dict"
           \/ "id" \notin DOMAIN j.value.v
           \/ ~IntOf(j.value.v["id"]).ok

\* the step hands on_event a message record of that kind
DispatchesMalformed ==
    /\ "wire" \in DOMAIN rq
    /\ Len(rq'.dispatched) = Len(rq.dispatched) + 1
    /\ MalformedMessage(rq'.dispatched[Len(rq'.dispatched)])

\* C34: a message event whose data is not valid JSON, is not an object with an
\* id, or has an id that is no integer, leaves the session's inbox, error list
\* and message URL as they were, and the reader goes on reading
C34_MalformedSkipped ==
    [][DispatchesMalformed =>
          /\ UNCHANGED <<inbox, errors, messages_url>>
          /\ rq'.pc = "reading"
          /\ rq'.read = rq.read + 1]_vars

\* the reader has delivered a message the session took after one it skipped
C34_Witness ==
    /\ "wire" \in DOMAIN rq
    /\ \E k \in 1..(Len(rq.dispatched) - 1) :
          /\ MalformedMessage(rq.dispatched[k])
          /\ rq.dispatched[k + 1].event = <<"message">>
          /\ ~MalformedMessage(rq.dispatched[k + 1])
    /\ 0 \in DOMAIN inbox[ReaderSession]
    /\ errors[ReaderSession] = <<>>


-----------------------------------------------------------------------------
(* C35: stopping the reader *)

\* C35 as stated: after stop() the reader thread eventually terminates, even
\* if it was blocked in a read, and it dispatches no endpoint or message
\* record for a line it reads after the flag was set
C35_StopEndsReader ==
    /\ [](("wire" \in DOMAIN rq /\ rq.stop) =>
            \A k \in 1..Len(rq.dispatched) :
                rq.dispatched[k].event # <<"__error__">> => rq.dispatched[k].at <= rq.stop_at)
    /\ (("wire" \in DOMAIN rq /\ rq.stop) ~> rq.pc = "ended")

\* the part of it that is about the records: none is dispatched for a line
\* read after the flag was set
C35_NothingDispatchedAfterStop ==
    ("wire" \in DOMAIN rq /\ rq.stop) =>
        \A k \in 1..Len(rq.dispatched) :
            rq.dispatched[k].event # <<"__error__">> => rq.dispatched[k].at <= rq.stop_at


-----------------------------------------------------------------------------
(* C36: the message URL *)

EndpointRecords == {k \in 1..Len(rq.dispatched) : rq.dispatched[k].event = <<"endpoint">>}

\* C36: the message URL of a session is the origin of its stream URL joined
\* with the path of the first endpoint event received, whatever events have
\* arrived after it
C36_UrlOfFirstEndpoint ==
    ("wire" \in DOMAIN rq /\ EndpointRecords # {}) =>
        LET first == CHOOSE k \in EndpointRecords : \A l \in EndpointRecords : k <= l
        IN  messages_url[ReaderSession]
              = _join_url(_origin(sse_url(ReaderSession)),
                          Strip(rq.dispatched[first].data))


-----------------------------------------------------------------------------
(* C37: the primitive types of an inputSchema *)

\* the type name of JSON Schema for the runtime type of a value
DeclaredTypeOf(value) ==
    CASE value.k = "str" -> "string"
      [] value.k = "int" -> "integer"
      [] value.k = "float" -> "number"
      [] value.k = "bool" -> "boolean"
      [] value.k = "dict" -> "object"
      [] value.k = "list" -> "array"
      [] OTHER -> "none"

PrimitiveTypes == {"string", "integer", "number", "boolean", "object", "array"}

\* C37: for a declared type among string, integer, number, boolean, object and
\* array a value passes exactly when its runtime type is that type, an integer
\* passing as a number too; a boolean passes neither as integer nor as number,
\* an integer not as boolean, and under any other type name no value passes
C37_TypeOkExact ==
    rq.gate = "_type_ok" =>
        (rq.result <=>
            /\ rq.jsonschema_type \in PrimitiveTypes
            /\ \/ DeclaredTypeOf(rq.value) = rq.jsonschema_type
               \/ rq.jsonschema_type = "number" /\ DeclaredTypeOf(rq.value) = "integer")

\* True has been checked against "integer" and rejected
C37_Witness ==
    /\ rq.gate = "_type_ok"
    /\ rq.jsonschema_type = "integer"
    /\ rq.value = Bool(TRUE)
    /\ ~rq.result


-----------------------------------------------------------------------------
(* C38: the order of the audit trail (Spec) *)

\* the names occur in the trail in this order, other events between them
RECURSIVE OccurInOrder(_, _)
OccurInOrder(trail, names) ==
    IF names = <<>> THEN TRUE
    ELSE LET at == {i \in 1..Len(trail) : trail[i] = Head(names)}
         IN  /\ at # {}
             /\ OccurInOrder(SubSeq(trail, (CHOOSE i \in at : \A j \in at : i <= j) + 1,
                                    Len(trail)),
                             Tail(names))

Has(trail, name) == \E i \in 1..Len(trail) : trail[i] = name

\* the payload of the policy_gate event of the request
PolicyGateAllowed(r) == policy_check_user_query(r.user_query).allowed

\* C38: in the trail of a request a tool_call comes only after, in this order,
\* request, policy_gate with allowed = true, tools_discovered, allowlist and
\* plan_validated; the trail of a blocked response holds no tool_call and
\* holds the event of the gate that rejected
C38_TrailInPipelineOrder ==
    /\ Has(rq.trace, "tool_call") =>
          /\ OccurInOrder(rq.trace, <<"request", "policy_gate", "tools_discovered",
                                      "allowlist", "plan_validated", "tool_call">>)
          /\ PolicyGateAllowed(rq)
    /\ (rq.pc = "done" /\ rq.output.type = "blocked") =>
          /\ ~Has(rq.trace, "tool_call")
          /\ \/ Has(rq.trace, "policy_gate") /\ ~PolicyGateAllowed(rq)
             \/ Has(rq.trace, "planner_rejected")
             \/ Has(rq.trace, "plan_validation_failed")
             \/ Has(rq.trace, "tool_not_allowed")
          /\ rq.trace[1] = "request"

\* a request has ended with a tool result, its tool_call in the trail
C38_Witness ==
    /\ rq.pc = "done"
    /\ rq.output.type = "tool_result"
    /\ Has(rq.trace, "tool_call")
    /\ Has(rq.trace, "typed_payload")


-----------------------------------------------------------------------------
(* SpecClose: the connected sessions and their callers, as SpecWait without   *)
(* its fairness, and close() called on a session at any time                  *)

\* a variant of close() that empties the session's inbox
CloseClearingInbox(s) ==
    /\ reader[s] = "running"
    /\ reader' = [reader EXCEPT ![s] = "ended"]
    /\ inbox' = [inbox EXCEPT ![s] = <<>>]
    /\ UNCHANGED <<rq, allowlist_file, safe_summarize, clock, messages_url, errors,
                   stream, posted, conn, callers>>

\* close() 242-250: the reader is stopped, after which it dispatches nothing
\* more, and the HTTP session is closed; requests opens a connection again
\* for a later POST
Close(s) ==
    /\ reader[s] = "running"
    /\ reader' = [reader EXCEPT ![s] = "ended"]
    /\ UNCHANGED <<rq, allowlist_file, safe_summarize, clock, messages_url, inbox, errors,
                   stream, posted, conn, callers>>

NextClose ==
    \/ NextWait
    \/ \E s \in ServerSet : Close(s)

SpecClose == InitWait /\ [][NextClose]_vars

-----------------------------------------------------------------------------
(* C39: responses that arrive after their wait is over (SpecClose) *)

\* the inbox holds under id the response to a request whose wait_for_id has
\* ended by timeout or error
StaleEntry(s, id) ==
    /\ id \in DOMAIN inbox[s]
    /\ "result" \in DOMAIN inbox[s][id].v
    /\ \E d \in 1..NumCallers :
          /\ callers[d].pc = "failed"
          /\ callers[d].sess = s
          /\ callers[d].rid = id
          /\ callers[d].re = inbox[s][id].v["result"].v

\* the step is a wait for the id, on the session, that returns the entry
TakenByWait(s, id) ==
    \E c \in 1..NumCallers :
        /\ callers[c].pc = "waiting"
        /\ callers[c].sess = s
        /\ callers[c].rid = id
        /\ callers'[c].pc = "returned"
        /\ callers'[c].got = inbox[s][id]
        /\ id \notin DOMAIN inbox'[s]

\* the step is the reader's dispatch of another response with the same id
ReplacedByResponse(s, id) ==
    /\ id \in DOMAIN inbox'[s]
    /\ MessageEvent(inbox'[s][id]) \in stream[s] \ stream'[s]

-----------------------------------------------------------------------------
(* C40: the two orchestrators agree (SpecGates) *)

=============================================================================
